---------------------------- MODULE Spec2Model ----------------------------
(***************************************************************************)
(* Phrase deduplication and near-duplicate analysis                        *)
(* (src/scripts/analysis/phrase-reducer.py, class PhraseAnalyzer).         *)
(*                                                                         *)
(* A phrase is a sequence of one-character strings.  A similarity score is *)
(* the exact fraction <<numerator, denominator>> in lowest terms of the    *)
(* float the code computes; a threshold is given in hundredths (85 stands  *)
(* for 0.85).  For the operand sizes of this model the float comparisons   *)
(* of the code agree with the exact ones.                                  *)
(***************************************************************************)
EXTENDS Integers, Sequences, FiniteSets

(***************************************************************************)
(* Bounds of the model.                                                    *)
(***************************************************************************)
\* total number of phrase occurrences on disk
MaxOcc == 3
\* longest operand of the stand-alone similarity_ratio calls
MaxStrLen == 3
\* total number of phrase occurrences on the disks with several groups
MaxGroupOcc == 5
\* how far the large corpora go beyond the caps of the report
MaxExcess == 1
\* longest operand of the stand-alone normalize_phrase calls
MaxPhraseLen == 5

\* the keys of an anatomy file
MaxKeys == 3
\* the files other than the anatomy file that exist when a fixing script
\* is run
MaxFiles == 2

(***************************************************************************)
(* Program constants.                                                      *)
(***************************************************************************)
\* len(phrase) // 10
BucketWidth == 10
\* range(max(0, length_bucket1-2), length_bucket1+3)
BucketRadius == 2
\* threshold=0.85, in hundredths
DefaultThreshold == 85
\* sorted_dups[:50]
MaxReportedDuplicates == 50
\* sorted_near[:100]
MaxReportedNear == 100

(***************************************************************************)
(* Generic helpers.                                                        *)
(***************************************************************************)
Range(s) == {s[k] : k \in 1..Len(s)}

Abs(x) == IF x < 0 THEN -x ELSE x

Max2(x, y) == IF x >= y THEN x ELSE y

SetMax(S) == CHOOSE x \in S : \A y \in S : y <= x

SetMin(S) == CHOOSE x \in S : \A y \in S : x <= y

\* a function on 1..n as the explicit sequence of its values
AsSeq(f) == SubSeq(f, 1, Len(f))

RECURSIVE Gcd(_, _)
Gcd(x, y) == IF y = 0 THEN x ELSE Gcd(y, x % y)

RECURSIVE Flatten(_)
\* concatenation of a sequence of sequences
Flatten(ss) == IF ss = <<>> THEN <<>> ELSE Head(ss) \o Flatten(Tail(ss))

\* the orders in which the elements of a finite set can be listed
Orderings(S) ==
    {f \in [1..Cardinality(S) -> S] : \A x \in S : \E k \in 1..Cardinality(S) : f[k] = x}

\* the distinct elements of seq in the order of their first occurrence: the
\* keys of a dict, the insertions that build set(seq)
Inserted(seq) ==
    LET first  == {k \in 1..Len(seq) : \A j \in 1..(k - 1) : seq[j] # seq[k]}
        nth(p) == CHOOSE k \in first : Cardinality({j \in first : j < k}) = p - 1
    IN  AsSeq([p \in 1..Cardinality(first) |-> seq[nth(p)]])

\* number of positions of s holding x
Count(x, s) == Cardinality({k \in 1..Len(s) : s[k] = x})

(***************************************************************************)
(* normalize_phrase: re.sub(r'\s+', ' ', phrase).strip().lower()           *)
(* A character is a string: a printable ASCII character is itself, any     *)
(* other character is written as ascii() of Python writes it: "\\x0b" is    *)
(* the vertical tab, "\\xc9" the letter U+00C9, "\\u03a3" the letter U+03A3. *)
(* The characters of the model are the ASCII characters, the whitespace of *)
(* Unicode and the letters named in this section.                          *)
(***************************************************************************)
\* the characters \s matches in a str pattern, which are those str.strip()
\* removes (str.isspace)
Whitespace ==
    {" ", "\t", "\n", "\r", "\f", "\\x0b", "\\x1c", "\\x1d", "\\x1e", "\\x1f", "\\x85",
     "\\xa0", "\\u1680", "\\u2000", "\\u2001", "\\u2002", "\\u2003", "\\u2004",
     "\\u2005", "\\u2006", "\\u2007", "\\u2008", "\\u2009", "\\u200a", "\\u2028",
     "\\u2029", "\\u202f", "\\u205f", "\\u3000"}

Uppers == <<"A","B","C","D","E","F","G","H","I","J","K","L","M",
            "N","O","P","Q","R","S","T","U","V","W","X","Y","Z">>

Lowers == <<"a","b","c","d","e","f","g","h","i","j","k","l","m",
            "n","o","p","q","r","s","t","u","v","w","x","y","z">>

\* the characters str.lower() changes, each with the characters it gives:
\* A-Z and, of the letters outside ASCII, U+00C9 (E acute), U+0391 (Alpha),
\* U+03A3 (Sigma, not at the end of a word), U+0130 (I with dot above, which
\* gives two characters) and U+212A (Kelvin sign)
LowerOf ==
    [c \in Range(Uppers) \cup {"\\xc9", "\\u0391", "\\u03a3", "\\u0130", "\\u212a"} |->
        IF c \in Range(Uppers) THEN <<Lowers[CHOOSE k \in 1..Len(Uppers) : Uppers[k] = c]>>
        ELSE IF c = "\\xc9" THEN <<"\\xe9">>
        ELSE IF c = "\\u0391" THEN <<"\\u03b1">>
        ELSE IF c = "\\u03a3" THEN <<"\\u03c3">>
        ELSE IF c = "\\u0130" THEN <<"i", "\\u0307">>
        ELSE <<"k">>]

\* str.lower() on a string of the one character c
LowerChar(c) == IF c \in DOMAIN LowerOf THEN LowerOf[c] ELSE <<c>>

\* str.lower(): every character gives what LowerChar gives, but for a Sigma
\* at the end of a word (after a cased letter and before none, characters
\* that are ignorable for case skipped), which gives the final sigma U+03C2
Lower(s) ==
    LET \* the cased letters of the model: those lower() changes and the
        \* lower-case letters, among them e acute, alpha, sigma, final sigma,
        \* dotless i and long s, and U+210B (script capital H), an upper-case
        \* letter that lower() leaves as it is
        Cased == DOMAIN LowerOf \cup Range(Lowers)
                     \cup {"\\xe9", "\\u03b1", "\\u03c3", "\\u03c2", "\\u0131", "\\u017f",
                           "\\u210b"}
        \* the characters ignorable for case: the apostrophe, the full stop,
        \* the colon, the circumflex, the grave accent (written "\\x60") and
        \* the combining dot
        CaseIgnorable == {"'", ".", ":", "^", "\\x60", "\\u0307"}
        final_sigma(k) ==
            LET before == {j \in 1..(k - 1) : s[j] \notin CaseIgnorable}
                after  == {j \in (k + 1)..Len(s) : s[j] \notin CaseIgnorable}
            IN  /\ before # {}
                /\ s[SetMax(before)] \in Cased
                /\ after = {} \/ s[SetMin(after)] \notin Cased
        lowered(k) == IF s[k] = "\\u03a3" /\ final_sigma(k) THEN <<"\\u03c2">>
                      ELSE LowerChar(s[k])
        \* two places for every character of s, the second one empty unless
        \* the character gives two
        places == AsSeq([p \in 1..(2 * Len(s)) |->
                            LET of == lowered((p + 1) \div 2)
                            IN  IF p % 2 = 1 THEN of[1]
                                ELSE IF Len(of) = 2 THEN of[2] ELSE ""])
    IN  SelectSeq(places, LAMBDA c : c # "")

\* re.sub(r'\s+', ' ', s): every character that is not whitespace is kept,
\* and every run of whitespace gives one space, at the place of its first
\* character
CollapseWhitespace(s) ==
    LET kept == SelectSeq(AsSeq([k \in 1..Len(s) |-> k]),
                          LAMBDA k : s[k] \notin Whitespace \/ k = 1
                                         \/ s[k - 1] \notin Whitespace)
    IN  AsSeq([p \in 1..Len(kept) |->
                  IF s[kept[p]] \in Whitespace THEN " " ELSE s[kept[p]]])

\* str.strip()
Strip(s) ==
    LET keep == {k \in 1..Len(s) : s[k] \notin Whitespace}
    IN  IF keep = {} THEN <<>> ELSE SubSeq(s, SetMin(keep), SetMax(keep))

NormalizeNoLower(phrase) == Strip(CollapseWhitespace(phrase))

NormalizeNoStrip(phrase) == Lower(CollapseWhitespace(phrase))

normalize_phrase(phrase) == Lower(Strip(CollapseWhitespace(phrase)))

(***************************************************************************)
(* similarity_ratio: difflib.SequenceMatcher(None, str1, str2).ratio()     *)
(* Positions are 0-based and ranges half-open, as in difflib.              *)
(***************************************************************************)
\* difflib __chain_b (autojunk): the popular characters of b, left out of b2j
Popular(b) ==
    IF Len(b) >= 200
    THEN {c \in Range(b) : Count(c, b) > (Len(b) \div 100) + 1}
    ELSE {}

RECURSIVE RunLen(_, _, _, _, _, _, _)
\* length of the common run of a[i:ahi] and b[j:bhi] starting at (i, j),
\* over the characters of b that are indexed in b2j
RunLen(a, b, pop, i, j, ahi, bhi) ==
    IF i < ahi /\ j < bhi /\ a[i + 1] = b[j + 1] /\ b[j + 1] \notin pop
    THEN 1 + RunLen(a, b, pop, i + 1, j + 1, ahi, bhi)
    ELSE 0

\* how far a block starting at (i, j) grows to the left: the characters
\* before it that are equal, popular or not (nothing is junk)
ExtendBack(a, b, i, j, alo, blo) ==
    LET most    == IF i - alo <= j - blo THEN i - alo ELSE j - blo
        unequal == {d \in 0..(most - 1) : a[i - d] # b[j - d]}
    IN  IF unequal = {} THEN most ELSE SetMin(unequal)

\* how far a block ending before (i, j) grows to the right
ExtendFwd(a, b, i, j, ahi, bhi) ==
    LET most    == IF ahi - i <= bhi - j THEN ahi - i ELSE bhi - j
        unequal == {d \in 0..(most - 1) : a[i + d + 1] # b[j + d + 1]}
    IN  IF unequal = {} THEN most ELSE SetMin(unequal)

\* SequenceMatcher.find_longest_match(alo, ahi, blo, bhi): <<i, j, k>>, the
\* longest block over the characters indexed in b2j, of those the one
\* starting earliest in a, of those the one starting earliest in b, grown
\* at both ends; with no such block the empty block at (alo, blo), which
\* the loops that extend the best block still grow to the right
find_longest_match(a, b, pop, alo, ahi, blo, bhi) ==
    LET starts == {ij \in (alo..(ahi - 1)) \X (blo..(bhi - 1)) :
                      a[ij[1] + 1] = b[ij[2] + 1] /\ b[ij[2] + 1] \notin pop}
    IN  IF starts = {} THEN <<alo, blo, ExtendFwd(a, b, alo, blo, ahi, bhi)>>
        ELSE LET len(ij) == RunLen(a, b, pop, ij[1], ij[2], ahi, bhi)
                 k    == SetMax({len(ij) : ij \in starts})
                 best == {ij \in starts : len(ij) = k}
                 i    == SetMin({ij[1] : ij \in best})
                 j    == SetMin({ij[2] : ij \in {x \in best : x[1] = i}})
                 back == ExtendBack(a, b, i, j, alo, blo)
                 fwd  == ExtendFwd(a, b, i + k, j + k, ahi, bhi)
             IN  <<i - back, j - back, k + back + fwd>>

RECURSIVE MatchSize(_, _, _, _, _, _, _)
\* sum of the sizes of get_matching_blocks() within a[alo:ahi], b[blo:bhi]
MatchSize(a, b, pop, alo, ahi, blo, bhi) ==
    LET m == find_longest_match(a, b, pop, alo, ahi, blo, bhi)
        i == m[1]
        j == m[2]
        k == m[3]
    IN  IF k = 0 THEN 0
        ELSE k
             + (IF alo < i /\ blo < j
                THEN MatchSize(a, b, pop, alo, i, blo, j) ELSE 0)
             + (IF i + k < ahi /\ j + k < bhi
                THEN MatchSize(a, b, pop, i + k, ahi, j + k, bhi) ELSE 0)

\* the fraction n/d in lowest terms
Fraction(n, d) == LET g == Gcd(n, d) IN <<n \div g, d \div g>>

\* _calculate_ratio(matches, length)
calculate_ratio(matches, length) ==
    IF length > 0 THEN Fraction(2 * matches, length) ELSE <<1, 1>>

similarity_ratio(str1, str2) ==
    calculate_ratio(MatchSize(str1, str2, Popular(str2), 0, Len(str1), 0, Len(str2)),
                    Len(str1) + Len(str2))

\* similarity >= threshold, threshold in hundredths
AtLeast(similarity, threshold) == 100 * similarity[1] >= threshold * similarity[2]

(***************************************************************************)
(* The corpus on disk.                                                     *)
(* A file is named by its directory and name; an entry is one phrase of a  *)
(* file with the kind of list and the outcome label it stands under.  The  *)
(* disk lists the entries list by list, those of a list in the order of    *)
(* the file; the order in which glob yields the files of a directory is    *)
(* that of the directory's listing, kept in the variable glob_order.       *)
(***************************************************************************)
Files == << [dir |-> "damage",    name |-> "sword.json"],
            [dir |-> "damage",    name |-> "dagger.json"],
            [dir |-> "locations", name |-> "sword.json"],
            [dir |-> "melee",     name |-> "sword.json"] >>

\* the kinds of list of each file, in the order a loader goes through the
\* lists of a file
Slots == << [file |-> 1, type |-> "verb"],
            [file |-> 1, type |-> "effect"],
            [file |-> 2, type |-> "verb"],
            [file |-> 3, type |-> "location"],
            [file |-> 4, type |-> "opening"] >>

Outcomes == {"success"}

\* the outcome of an entry that stands under no outcome label: the list of
\* phrases sits where the loader expects the mapping from outcomes to lists
Unlabelled == "<no label>"

\* a JSON value that is not a string is kept as its type and its text
json_number == <<"number", "7">>

json_list == <<"list", "[]">>

JsonTypes == {"number", "list"}

\* the value is a str
IsString(value) == value = <<>> \/ value[1] \notin JsonTypes

\* hash(value) is defined (a list is not hashable)
Hashable(value) == value = <<>> \/ value[1] # "list"

\* "abc defg"
p8  == <<"a","b","c"," ","d","e","f","g">>
\* "Abc  defg ": p8 but for case and whitespace
q10 == <<"A","b","c"," "," ","d","e","f","g"," ">>
\* "abc defghi"
p10 == <<"a","b","c"," ","d","e","f","g","h","i">>
\* "abc wxyz.uvd"
w12 == <<"a","b","c"," ","w","x","y","z",".","u","v","d">>
\* fifty times "z"
p50 == AsSeq([k \in 1..50 |-> "z"])

PhrasePool == {p8, q10, p10, w12, p50}

\* "the axe cleaves through bone"
bone ==
    <<"t","h","e"," ","a","x","e"," ","c","l","e","a","v","e","s"," ",
      "t","h","r","o","u","g","h"," ","b","o","n","e">>
\* "the axe cleaves through flesh"
flesh ==
    <<"t","h","e"," ","a","x","e"," ","c","l","e","a","v","e","s"," ",
      "t","h","r","o","u","g","h"," ","f","l","e","s","h">>

\* the phrases of the disks of the axe scenario
ScenarioPool == {bone, flesh, p8}

\* the phrases and other values of the disks with malformed entries
FaultyPool == {p8, p10, json_number, json_list}

\* twenty-one times "abcd": 84 characters
long84 == AsSeq([k \in 1..84 |-> Lowers[((k - 1) % 4) + 1]])
\* twenty-one times "abcde": 105 characters
long105 == AsSeq([k \in 1..105 |-> Lowers[((k - 1) % 5) + 1]])

\* the phrases of the disks of long phrases
LongPool == {long84, long105, p8}

Entries == [slot    : 1..Len(Slots),
            outcome : Outcomes \cup {Unlabelled},
            phrase  : PhrasePool \cup FaultyPool \cup ScenarioPool \cup LongPool]

\* the well-formed entries: a string under an outcome label
WellFormed(e) == e.outcome \in Outcomes /\ IsString(e.phrase)

RECURSIVE SeqsUpTo(_, _)
\* the sequences over S of length at most n
SeqsUpTo(S, n) ==
    IF n = 0 THEN {<<>>}
    ELSE LET shorter == SeqsUpTo(S, n - 1)
         IN  shorter \cup {Append(s, x) : s \in {t \in shorter : Len(t) = n - 1}, x \in S}

\* the disks of at most n well-formed entries, over the phrases of pool, in
\* the lists slots
Disks(pool, slots, n) ==
    {d \in SeqsUpTo({e \in Entries : WellFormed(e) /\ e.phrase \in pool /\ e.slot \in slots},
                    n) :
        \A k \in 1..(Len(d) - 1) : d[k].slot <= d[k + 1].slot}

\* the lists of the disks with malformed entries: those of the damage files
FaultySlots == {k \in 1..Len(Slots) : Files[Slots[k].file].dir = "damage"}

\* the disks of at most n entries, malformed ones included; a list of a file
\* is either a mapping from outcomes to phrases or a bare list of phrases,
\* so its entries are all labelled or all unlabelled
FaultyDisks(n) ==
    {d \in SeqsUpTo({e \in Entries : e.phrase \in FaultyPool /\ e.slot \in FaultySlots}, n) :
        /\ \A k \in 1..(Len(d) - 1) : d[k].slot <= d[k + 1].slot
        /\ \A k, m \in 1..Len(d) :
              d[k].slot = d[m].slot => ((d[k].outcome = Unlabelled) <=> (d[m].outcome = Unlabelled))}

\* the phrases of the disks whose entries lie in any list of any file
LoadPool == {p8, q10, p10}

\* the lists of the disks that hold any phrase of the pool: the verbs of
\* the two damage files
ScanSlots == {k \in 1..Len(Slots) : Slots[k].type = "verb"}

(***************************************************************************)
(* State.                                                                  *)
(***************************************************************************)
VARIABLES
    disk,               \* the corpus files: their entries
    unreadable,         \* the corpus files that fail to open or parse, each
                        \* with the exception open or json.load raises
    glob_order,         \* the corpus files on disk in the order glob yields
                        \* them
    pc,                 \* position in run_analysis / find_near_duplicates
    raised,             \* the exception that ended the run, if any
    all_phrases,        \* self.all_phrases
    phrase_locations,   \* self.phrase_locations, in key insertion order
    duplicates,         \* self.duplicates
    near_duplicates,    \* self.near_duplicates
    unique_phrases,     \* find_near_duplicates: unique_phrases
    threshold,          \* find_near_duplicates: threshold, in hundredths
    anchor,             \* find_near_duplicates: i, anchors already scanned
    total_comparisons,  \* find_near_duplicates: total_comparisons
    comparisons,        \* every (phrase1, phrase2) the inner loop has drawn,
                        \* with the branch that ended the iteration
    report,             \* generate_report: the statistics
    run,                \* number of the current run over the disk
    previous,           \* results of the run before
    ratio_call,         \* a stand-alone call of similarity_ratio
    normalize_call,     \* a stand-alone call of normalize_phrase
    module_name,        \* a fixing script: __name__
    FILE_REPLACEMENTS,  \* fix_weapon_references.FILE_REPLACEMENTS, in key order
    json_files,         \* the JSON files the fixing scripts rewrite
    changes,            \* what fix_weapon_file / fix_grammar_in_file returned
    total_changes,      \* main: total_changes
    changes_made        \* fix-anatomy-override-keys: changes_made

vars == <<disk, unreadable, glob_order, pc, raised, all_phrases, phrase_locations,
          duplicates, near_duplicates, unique_phrases, threshold, anchor, total_comparisons,
          comparisons, report, run, previous, ratio_call, normalize_call, module_name,
          FILE_REPLACEMENTS, json_files, changes, total_changes, changes_made>>

corpus == <<disk, unreadable, glob_order>>

calls == <<ratio_call, normalize_call, module_name, FILE_REPLACEMENTS, json_files, changes,
           total_changes, changes_made>>

analyzer == <<all_phrases, phrase_locations, duplicates, near_duplicates>>

scan == <<unique_phrases, threshold, anchor, total_comparisons, comparisons>>

NoReport == [written |-> FALSE]

NoPrevious == [run |-> 0]

NoCall == [str1 |-> <<>>, str2 |-> <<>>, ratio |-> <<>>]

NoNormalizeCall == [phrase |-> <<>>, returned |-> FALSE, result |-> <<>>, again |-> <<>>]

\* no fixing script is run
NoFixer ==
    /\ module_name = ""
    /\ FILE_REPLACEMENTS = <<>>
    /\ json_files = <<>>
    /\ changes = <<>>
    /\ total_changes = 0
    /\ changes_made = <<>>

\* PhraseAnalyzer.__init__
Constructed ==
    /\ all_phrases = <<>>
    /\ phrase_locations = <<>>
    /\ duplicates = <<>>
    /\ near_duplicates = <<>>

\* a new PhraseAnalyzer before run_analysis, over the disk d of which the
\* files of u cannot be read; the files on disk are those that hold an
\* entry or cannot be read, and a directory lists its files in any order
StartOn(d, u) ==
    /\ disk = d
    /\ unreadable = u
    /\ LET present == {u_file.file : u_file \in u}
                           \cup {Slots[d[k].slot].file : k \in 1..Len(d)}
       IN  \E order \in Orderings(present) :
              /\ \A k, m \in 1..Cardinality(present) :
                    (k < m /\ Files[order[k]].dir # Files[order[m]].dir)
                        => order[k] < order[m]
              /\ glob_order = AsSeq(order)
    /\ pc = "load_damage"
    /\ raised = "none"
    /\ Constructed
    /\ unique_phrases = <<>>
    /\ threshold = DefaultThreshold
    /\ anchor = 0
    /\ total_comparisons = 0
    /\ comparisons = <<>>
    /\ report = NoReport
    /\ run = 1
    /\ previous = NoPrevious
    /\ ratio_call = NoCall
    /\ normalize_call = NoNormalizeCall
    /\ NoFixer

\* a new PhraseAnalyzer before run_analysis, over the disk d
Start(d) == StartOn(d, {})

Init == \E d \in Disks(LoadPool, 1..Len(Slots), MaxOcc) : Start(d)

\* the verbs of sword.json are any phrases of the pool, those of dagger.json
\* are occurrences of "abc defghi"
InitScan ==
    \E d \in Disks(PhrasePool, ScanSlots, MaxOcc) :
        /\ \A k \in 1..Len(d) : Slots[d[k].slot].file # 1 => d[k].phrase = p10
        /\ Start(d)

\* the files of the disks with malformed entries
FaultyFiles == {Slots[k].file : k \in FaultySlots}

\* a corpus with malformed entries and at most one file that cannot be read
\* (the disk lists no entry of such a file)
InitFaulty ==
    \E d \in FaultyDisks(MaxOcc),
       u \in {{}} \cup {{[file |-> f, error |-> e]} :
                           f \in FaultyFiles,
                           e \in {"JSONDecodeError", "UnicodeDecodeError",
                                  "IsADirectoryError", "PermissionError"}} :
        /\ \A k \in 1..Len(d) : \A u_file \in u : Slots[d[k].slot].file # u_file.file
        /\ StartOn(d, u)

(***************************************************************************)
(* phrase_locations: a defaultdict(list), kept as the sequence of its      *)
(* items in insertion order.                                               *)
(***************************************************************************)
Keys(pl) == {pl[k].key : k \in 1..Len(pl)}

\* the value stored under key (the key is present)
Get(pl, key) == pl[CHOOSE k \in 1..Len(pl) : pl[k].key = key].val

\* the value self.phrase_locations[key] evaluates to
Lookup(pl, key) == IF key \in Keys(pl) THEN Get(pl, key) ELSE <<>>

TouchInserting(pl, key) == Append(pl, [key |-> key, val |-> <<>>])

\* the dictionary after evaluating self.phrase_locations[key]
Touch(pl, key) ==
    IF key \in Keys(pl) THEN pl ELSE Append(pl, [key |-> key, val |-> <<>>])

(***************************************************************************)
(* Loading.                                                                *)
(***************************************************************************)
\* file_name of a damage or location file: file_path.name
PlainFileName(f) == <<f.name>>

\* file_name of an opening file: f"{opening_dir.name}/{file_path.name}"
OpeningFileName(f) == <<f.dir, f.name>>

FileName(f) == IF f.dir \in {"damage", "locations"} THEN PlainFileName(f)
               ELSE OpeningFileName(f)

\* the location record appended for an entry
Location(e) ==
    [file    |-> FileName(Files[Slots[e.slot].file]),
     type    |-> Slots[e.slot].type,
     outcome |-> e.outcome]

\* the lists of the files of the directories dirs, in traversal order:
\* the files as glob yields them, the lists of a file in the order of Slots
SlotsIn(dirs) ==
    Flatten(AsSeq([p \in 1..Len(glob_order) |->
                      SelectSeq(AsSeq([k \in 1..Len(Slots) |-> k]),
                                LAMBDA k : /\ Slots[k].file = glob_order[p]
                                           /\ Files[Slots[k].file].dir \in dirs)]))

\* the entries of the disk in one list of one file
EntriesOf(slot) == SelectSeq(disk, LAMBDA e : e.slot = slot)

\* self.all_phrases after the appends for entries
LoadPhrases(ap, entries) ==
    ap \o AsSeq([k \in 1..Len(entries) |-> entries[k].phrase])

LoadLocationsDeduplicated(pl, entries) ==
    LET keys == Inserted(AsSeq([k \in 1..Len(pl) |-> pl[k].key])
                             \o AsSeq([k \in 1..Len(entries) |-> entries[k].phrase]))
        appended(key) ==
            LET of_key == SelectSeq(entries, LAMBDA e : e.phrase = key)
            IN  AsSeq([k \in 1..Len(of_key) |-> Location(of_key[k])])
    IN  AsSeq([p \in 1..Len(keys) |->
                  [key |-> keys[p],
                   val |-> Inserted(Lookup(pl, keys[p]) \o appended(keys[p]))]])

\* self.phrase_locations after self.phrase_locations[phrase].append(...)
\* for entries: a new key is inserted at the first append for it, and the
\* list of a key grows in the order of the appends
LoadLocations(pl, entries) ==
    LET keys == Inserted(AsSeq([k \in 1..Len(pl) |-> pl[k].key])
                             \o AsSeq([k \in 1..Len(entries) |-> entries[k].phrase]))
        appended(key) ==
            LET of_key == SelectSeq(entries, LAMBDA e : e.phrase = key)
            IN  AsSeq([k \in 1..Len(of_key) |-> Location(of_key[k])])
    IN  AsSeq([p \in 1..Len(keys) |->
                  [key |-> keys[p], val |-> Lookup(pl, keys[p]) \o appended(keys[p])]])

\* the loops over one list of a file: data[...].items() raises
\* AttributeError on a bare list; self.phrase_locations[phrase] raises
\* TypeError on an unhashable phrase, after self.all_phrases.append(phrase)
LoadList(ap, pl, entries) ==
    IF entries # <<>> /\ Head(entries).outcome = Unlabelled
    THEN [ap |-> ap, pl |-> pl, raised |-> "AttributeError"]
    ELSE LET unhashable == {k \in 1..Len(entries) : ~Hashable(entries[k].phrase)}
         IN  IF unhashable = {}
             THEN [ap     |-> LoadPhrases(ap, entries),
                   pl     |-> AsSeq(LoadLocations(pl, entries)),
                   raised |-> "none"]
             ELSE LET first == SetMin(unhashable)
                  IN  [ap     |-> LoadPhrases(ap, SubSeq(entries, 1, first)),
                       pl     |-> AsSeq(LoadLocations(pl, SubSeq(entries, 1, first - 1))),
                       raised |-> "TypeError"]

RECURSIVE LoadLists(_, _, _)
\* the loop over the files of a loader, list by list: on a file that
\* cannot be read open raises an OSError (IsADirectoryError,
\* PermissionError) and json.load UnicodeDecodeError or JSONDecodeError;
\* nothing catches an exception
LoadLists(ap, pl, slots) ==
    IF slots = <<>> THEN [ap |-> ap, pl |-> pl, raised |-> "none"]
    ELSE IF \E u_file \in unreadable : u_file.file = Slots[Head(slots)].file
         THEN [ap     |-> ap,
               pl     |-> pl,
               raised |-> (CHOOSE u_file \in unreadable :
                              u_file.file = Slots[Head(slots)].file).error]
         ELSE LET loaded == LoadList(ap, pl, EntriesOf(Head(slots)))
              IN  IF loaded.raised # "none" THEN loaded
                  ELSE LoadLists(loaded.ap, loaded.pl, Tail(slots))

Load(dirs, next) ==
    /\ \E loaded \in {LoadLists(all_phrases, phrase_locations, SlotsIn(dirs))} :
          /\ all_phrases' = loaded.ap
          /\ phrase_locations' = loaded.pl
          /\ raised' = loaded.raised
          /\ pc' = IF loaded.raised = "none" THEN next ELSE "aborted"
    /\ UNCHANGED <<corpus, duplicates, near_duplicates, scan, report, run, previous,
                   calls>>

load_damage_files ==
    /\ pc = "load_damage"
    /\ Load({"damage"}, "load_location")

load_location_files ==
    /\ pc = "load_location"
    /\ Load({"locations"}, "load_opening")

load_opening_files ==
    /\ pc = "load_opening"
    /\ Load({"openings", "ranged", "melee", "defense"}, "find_exact")

(***************************************************************************)
(* find_exact_duplicates                                                   *)
(***************************************************************************)
\* set(loc['file'] for loc in locations)
FileSet(locations) == {locations[k].file : k \in 1..Len(locations)}

IsDuplicatedAnyRepeat(item) == Len(item.val) > 1

\* the items of phrase_locations a group is recorded for
IsDuplicated(item) == Len(item.val) > 1 /\ Cardinality(FileSet(item.val)) > 1

\* the record appended for an item; files is list(files), in the order the
\* set happens to be iterated in
DuplicateGroup(item, files) ==
    [phrase    |-> item.key,
     count     |-> Len(item.val),
     locations |-> item.val,
     files     |-> files]

\* every list a set of file names of the corpus can be turned into
FileLists == UNION {Orderings(S) : S \in SUBSET {FileName(Files[k]) : k \in 1..Len(Files)}}

\* the insertions that build the set files of an item
FilesInserted(item) == Inserted(AsSeq([k \in 1..Len(item.val) |-> item.val[k].file]))

\* within one process the order in which a set is iterated is a function
\* of the insertions that built it: two groups whose sets were built by the
\* same insertions list their files in the same order, also when they are
\* recorded by two calls on one analyzer; the groups are appended to the
\* list, which the method does not empty
find_exact_duplicates ==
    /\ pc = "find_exact"
    /\ LET found     == SelectSeq(phrase_locations, IsDuplicated)
           histories == {FilesInserted(found[k]) : k \in 1..Len(found)}
       IN  \E listing \in [histories -> FileLists] :
              /\ \A h \in histories : listing[h] \in Orderings(Range(h))
              /\ \A h \in histories : \A k \in 1..Len(duplicates) :
                    FilesInserted([val |-> duplicates[k].locations]) = h
                        => listing[h] = duplicates[k].files
              /\ duplicates' = duplicates \o
                     [k \in 1..Len(found) |->
                         DuplicateGroup(found[k], listing[FilesInserted(found[k])])]
    /\ pc' = "find_near"
    /\ UNCHANGED <<corpus, raised, all_phrases, phrase_locations, near_duplicates, scan, report,
                   run, previous, calls>>

(***************************************************************************)
(* find_near_duplicates                                                    *)
(***************************************************************************)
\* len(phrase) // 10
LengthBucket(phrase) == Len(phrase) \div BucketWidth

\* length_buckets[bucket]: the unique phrases of a bucket, in the order of
\* unique_phrases (the empty list stands for a missing bucket)
length_buckets(unique, bucket) ==
    SelectSeq(unique, LAMBDA phrase : LengthBucket(phrase) = bucket)

AllBuckets(bucket1) ==
    [k \in 1..(bucket1 + BucketRadius + 4) |-> k - 1]

CandidateBucketsFromOne(bucket1) ==
    LET lo == Max2(1, bucket1 - BucketRadius)
    IN  AsSeq([k \in 1..(bucket1 + BucketRadius + 1 - lo) |-> lo + k - 1])

\* range(max(0, length_bucket1-2), length_bucket1+3)
CandidateBuckets(bucket1) ==
    LET lo == Max2(0, bucket1 - BucketRadius)
    IN  AsSeq([k \in 1..(bucket1 + BucketRadius + 1 - lo) |-> lo + k - 1])

\* the phrase2 the inner loop draws for the anchor phrase1, in order
Candidates(unique, phrase1) ==
    LET buckets == CandidateBuckets(LengthBucket(phrase1))
    IN  Flatten([k \in 1..Len(buckets) |-> length_buckets(unique, buckets[k])])

LengthSkipReversed(len1, len2) == 5 * Abs(len1 - len2) < Max2(len1, len2)

LengthSkipInclusive(len1, len2) == 5 * Abs(len1 - len2) >= Max2(len1, len2)

\* abs(len1 - len2) / max(len1, len2) > 0.2
LengthSkip(len1, len2) == 5 * Abs(len1 - len2) > Max2(len1, len2)

\* self.similarity_ratio(norm1, norm2)
Score(phrase1, phrase2) ==
    similarity_ratio(normalize_phrase(phrase1), normalize_phrase(phrase2))

EmitsBelow(similarity, t) == ~AtLeast(similarity, t)

\* similarity >= threshold
Emits(similarity, t) == AtLeast(similarity, t)

SameNormalizedCaseSensitive(phrase1, phrase2) ==
    NormalizeNoLower(phrase1) = NormalizeNoLower(phrase2)

\* norm1 == norm2
SameNormalized(phrase1, phrase2) ==
    normalize_phrase(phrase1) = normalize_phrase(phrase2)

\* the branch that ends the inner iteration for (phrase1, phrase2)
Outcome(phrase1, phrase2, t) ==
    IF phrase1 = phrase2 THEN "same"
    ELSE IF LengthSkip(Len(phrase1), Len(phrase2)) THEN "length"
    ELSE IF SameNormalized(phrase1, phrase2) THEN "normalized_equal"
    ELSE IF Emits(Score(phrase1, phrase2), t) THEN "emitted"
    ELSE "below"

\* the inner iterations of the anchor phrase1
AnchorComparisons(unique, phrase1, t) ==
    LET cand == Candidates(unique, phrase1)
    IN  AsSeq([k \in 1..Len(cand) |->
                  [phrase1 |-> phrase1, phrase2 |-> cand[k],
                   outcome |-> Outcome(phrase1, cand[k], t)]])

NearRecordSwapped(pl, phrase1, phrase2) ==
    [phrase1    |-> phrase1,
     phrase2    |-> phrase2,
     similarity |-> Score(phrase1, phrase2),
     locations1 |-> Lookup(pl, phrase2),
     locations2 |-> Lookup(pl, phrase1)]

\* the record appended to near_duplicates
NearRecord(pl, phrase1, phrase2) ==
    [phrase1    |-> phrase1,
     phrase2    |-> phrase2,
     similarity |-> Score(phrase1, phrase2),
     locations1 |-> Lookup(pl, phrase1),
     locations2 |-> Lookup(pl, phrase2)]

\* the iterations counted by total_comparisons
Counted(c) == c.outcome \in {"normalized_equal", "emitted", "below"}

\* set(self.all_phrases)
PhraseSet(ap) == Range(ap)

\* find_near_duplicates(threshold) up to the scan loop:
\* unique_phrases = list(set(self.all_phrases)), in the order the set
\* happens to be iterated in; a set built again by the same process from
\* the same phrases comes out in the order it came out in before (what an
\* earlier call listed is still in unique_phrases)
\* len(phrase) at line 139 raises TypeError on a phrase that is not a str:
\* the call is left with its locals
StartScan(t) ==
    /\ pc = "find_near"
    /\ IF \A phrase \in PhraseSet(all_phrases) : IsString(phrase)
       THEN /\ unique_phrases' \in Orderings(PhraseSet(all_phrases))
            /\ (unique_phrases # <<>> /\ Range(unique_phrases) = PhraseSet(all_phrases))
                   => unique_phrases' = unique_phrases
            /\ threshold' = t
            /\ anchor' = 0
            /\ total_comparisons' = 0
            /\ comparisons' = <<>>
            /\ pc' = "scan"
            /\ UNCHANGED raised
       ELSE /\ pc' = "aborted"
            /\ raised' = "TypeError"
            /\ UNCHANGED scan
    /\ UNCHANGED <<corpus, analyzer, report, run, previous, calls>>

Prepended(list, records) == records \o list

\* list.append(record) for each of records, in order
Appended(list, records) == list \o records

RECURSIVE TouchAll(_, _)
\* the dictionary after evaluating self.phrase_locations[key] for the keys
TouchAll(pl, keys) ==
    IF keys = <<>> THEN pl ELSE TouchAll(Touch(pl, Head(keys)), Tail(keys))

ScanAnchorOncePerPair ==
    /\ pc = "scan"
    /\ anchor < Len(unique_phrases)
    /\ \E done \in {AnchorComparisons(unique_phrases, unique_phrases[anchor + 1], threshold)} :
       LET emitted == SelectSeq(done, LAMBDA c :
                          /\ c.outcome = "emitted"
                          /\ \A k \in 1..Len(near_duplicates) :
                                {near_duplicates[k].phrase1, near_duplicates[k].phrase2}
                                    # {c.phrase1, c.phrase2})
       IN  /\ comparisons' = comparisons \o done
           /\ total_comparisons' = total_comparisons + Len(SelectSeq(done, Counted))
           /\ near_duplicates' =
                  Appended(near_duplicates,
                           AsSeq([k \in 1..Len(emitted) |->
                                     NearRecord(phrase_locations, emitted[k].phrase1,
                                                emitted[k].phrase2)]))
           /\ phrase_locations' =
                  TouchAll(phrase_locations,
                           Flatten([k \in 1..Len(emitted) |->
                                       <<emitted[k].phrase1, emitted[k].phrase2>>]))
    /\ anchor' = anchor + 1
    /\ UNCHANGED <<corpus, raised, pc, all_phrases, duplicates, unique_phrases, threshold,
                   report, run, previous, calls>>

\* one iteration of the loop over the anchors
ScanAnchor ==
    /\ pc = "scan"
    /\ anchor < Len(unique_phrases)
    /\ \E done \in {AnchorComparisons(unique_phrases, unique_phrases[anchor + 1], threshold)} :
       LET emitted == SelectSeq(done, LAMBDA c : c.outcome = "emitted")
       IN  /\ comparisons' = comparisons \o done
           /\ total_comparisons' = total_comparisons + Len(SelectSeq(done, Counted))
           /\ near_duplicates' =
                  Appended(near_duplicates,
                           AsSeq([k \in 1..Len(emitted) |->
                                     NearRecord(phrase_locations, emitted[k].phrase1,
                                                emitted[k].phrase2)]))
           /\ phrase_locations' =
                  TouchAll(phrase_locations,
                           Flatten([k \in 1..Len(emitted) |->
                                       <<emitted[k].phrase1, emitted[k].phrase2>>]))
    /\ anchor' = anchor + 1
    /\ UNCHANGED <<corpus, raised, pc, all_phrases, duplicates, unique_phrases, threshold,
                   report, run, previous, calls>>

\* the loop over the anchors is exhausted: find_near_duplicates returns
EndScan ==
    /\ pc = "scan"
    /\ anchor = Len(unique_phrases)
    /\ pc' = "report"
    /\ UNCHANGED <<corpus, raised, analyzer, scan, report, run, previous, calls>>

(***************************************************************************)
(* generate_report: the listings.  The report lines of a group or a pair   *)
(* are written from its record, in the order of the listing.               *)
(***************************************************************************)
\* seq[:n]
Take(seq, n) == SubSeq(seq, 1, IF n < Len(seq) THEN n ELSE Len(seq))

\* x > y on two similarity scores
GreaterScore(x, y) == x[1] * y[2] > y[1] * x[2]

SortedByCountAscending(dups) ==
    LET n       == Len(dups)
        rank(k) == 1 + Cardinality({j \in 1..n :
                           \/ dups[j].count < dups[k].count
                           \/ (j < k /\ dups[j].count = dups[k].count)})
    IN  AsSeq([p \in 1..n |-> dups[CHOOSE k \in 1..n : rank(k) = p]])

\* sorted(self.duplicates, key=lambda x: x['count'], reverse=True): by
\* descending count, groups of equal count in the order of the list
SortedByCount(dups) ==
    LET n       == Len(dups)
        rank(k) == 1 + Cardinality({j \in 1..n :
                           \/ dups[j].count > dups[k].count
                           \/ (j < k /\ dups[j].count = dups[k].count)})
    IN  AsSeq([p \in 1..n |-> dups[CHOOSE k \in 1..n : rank(k) = p]])

SortedBySimilarityThenReversed(near) ==
    LET n       == Len(near)
        rank(k) == 1 + Cardinality({j \in 1..n :
                           \/ GreaterScore(near[j].similarity, near[k].similarity)
                           \/ (j > k /\ near[j].similarity = near[k].similarity)})
    IN  AsSeq([p \in 1..n |-> near[CHOOSE k \in 1..n : rank(k) = p]])

\* sorted(self.near_duplicates, key=lambda x: x['similarity'], reverse=True):
\* by descending similarity, pairs of equal similarity in the order of the
\* list
SortedBySimilarity(near) ==
    LET n       == Len(near)
        rank(k) == 1 + Cardinality({j \in 1..n :
                           \/ GreaterScore(near[j].similarity, near[k].similarity)
                           \/ (j < k /\ near[j].similarity = near[k].similarity)})
    IN  AsSeq([p \in 1..n |-> near[CHOOSE k \in 1..n : rank(k) = p]])

\* for dup in sorted_dups[:50]
ListedDuplicates(dups) == Take(SortedByCount(dups), MaxReportedDuplicates)

\* for near in sorted_near[:100]
ListedNear(near) == Take(SortedBySimilarity(near), MaxReportedNear)

(***************************************************************************)
(* generate_report: the statistics                                         *)
(***************************************************************************)
RECURSIVE SumCounts(_)
\* sum(d['count'] - 1 for d in self.duplicates)
SumCounts(dups) ==
    IF dups = <<>> THEN 0
    ELSE IF Len(dups) = 1 THEN dups[1].count - 1
    ELSE LET half == Len(dups) \div 2
         IN  SumCounts(SubSeq(dups, 1, half)) + SumCounts(SubSeq(dups, half + 1, Len(dups)))

StatisticsOfListed(ap, dups, near) ==
    LET listed_dups              == Take(dups, MaxReportedDuplicates)
        listed_near              == Take(near, MaxReportedNear)
        duplicate_instances      == SumCounts(listed_dups)
        near_duplicate_potential == Len(listed_near)
        total_potential          == duplicate_instances + near_duplicate_potential
    IN  [unique_phrases   |-> Cardinality(PhraseSet(ap)),
         phrase_instances |-> Len(ap),
         exact_duplicates |-> Len(listed_dups),
         near_duplicates  |-> Len(listed_near),
         total_potential  |-> total_potential,
         reduction_pct    |-> IF ap # <<>>
                              THEN Fraction(total_potential * 100, Len(ap))
                              ELSE <<0, 1>>]

StatisticsUnguarded(ap, dups, near) ==
    LET duplicate_instances      == SumCounts(dups)
        near_duplicate_potential == Len(near)
        total_potential          == duplicate_instances + near_duplicate_potential
    IN  [unique_phrases   |-> Cardinality(PhraseSet(ap)),
         phrase_instances |-> Len(ap),
         exact_duplicates |-> Len(dups),
         near_duplicates  |-> Len(near),
         total_potential  |-> total_potential,
         reduction_pct    |-> IF ap # <<>>
                              THEN Fraction(total_potential * 100, Len(ap))
                              ELSE <<total_potential * 100, Len(ap)>>]

\* the statistics of the report; the percentage as an exact fraction
\* <<numerator, denominator>> (a denominator of 0 stands for a division by
\* zero)
Statistics(ap, dups, near) ==
    LET duplicate_instances      == SumCounts(dups)
        near_duplicate_potential == Len(near)
        total_potential          == duplicate_instances + near_duplicate_potential
    IN  [unique_phrases   |-> Cardinality(PhraseSet(ap)),
         phrase_instances |-> Len(ap),
         exact_duplicates |-> Len(dups),
         near_duplicates  |-> Len(near),
         total_potential  |-> total_potential,
         reduction_pct    |-> IF ap # <<>>
                              THEN Fraction(total_potential * 100, Len(ap))
                              ELSE <<0, 1>>]

generate_report ==
    /\ pc = "report"
    /\ report' = [written           |-> TRUE,
                  listed_duplicates |-> ListedDuplicates(duplicates),
                  listed_near       |-> ListedNear(near_duplicates),
                  statistics        |-> Statistics(all_phrases, duplicates,
                                                   near_duplicates)]
    /\ pc' = "done"
    /\ UNCHANGED <<corpus, raised, analyzer, scan, run, previous, calls>>

(***************************************************************************)
(* run_analysis: the loads, find_exact_duplicates,                         *)
(* find_near_duplicates(threshold=0.85), generate_report.                  *)
(***************************************************************************)
Next ==
    \/ load_damage_files
    \/ load_location_files
    \/ load_opening_files
    \/ find_exact_duplicates
    \/ StartScan(DefaultThreshold)
    \/ ScanAnchor
    \/ EndScan
    \/ generate_report

Spec == Init /\ [][Next]_vars

SpecScan == InitScan /\ [][Next]_vars

SpecFaulty == InitFaulty /\ [][Next]_vars

InitScenario == \E d \in Disks(ScenarioPool, ScanSlots, MaxOcc) : Start(d)

SpecScenario == InitScenario /\ [][Next]_vars

(***************************************************************************)
(* Disks of more occurrences of fewer phrases: several exact-duplicate     *)
(* groups of different counts.                                             *)
(***************************************************************************)
GroupPool == {p8, p10}

InitGroups == \E d \in Disks(GroupPool, ScanSlots, MaxGroupOcc) : Start(d)

SpecGroups == InitGroups /\ [][Next]_vars

(***************************************************************************)
(* The detection methods called again on one analyzer, until the lists are *)
(* longer than the listings of the report: neither method empties its      *)
(* list, so every call appends its groups or its records once more.  The   *)
(* disks hold "abc defg" and "abc defghi" in the verbs of sword.json and   *)
(* "abc defghi" in the verbs of dagger.json: one group for each call of    *)
(* find_exact_duplicates, two records for each call of                     *)
(* find_near_duplicates.  The caller goes on to the scan when the list     *)
(* holds about MaxReportedDuplicates groups, and to the report when it      *)
(* holds about MaxReportedNear records.                                    *)
(***************************************************************************)
InitLarge ==
    \E d \in Disks(GroupPool, ScanSlots, MaxOcc) :
        /\ Len(d) = 3
        /\ {d[1].phrase, d[2].phrase} = GroupPool
        /\ Slots[d[1].slot].file = 1 /\ Slots[d[2].slot].file = 1
        /\ Slots[d[3].slot].file # 1 /\ d[3].phrase = p10
        /\ Start(d)

\* analyzer.find_exact_duplicates() called once more, before the scan
call_find_exact_duplicates ==
    /\ pc = "find_near"
    /\ Len(duplicates) < MaxReportedDuplicates + MaxExcess
    /\ pc' = "find_exact"
    /\ UNCHANGED <<corpus, raised, analyzer, scan, report, run, previous, calls>>

\* analyzer.find_near_duplicates() called once more, before the report
call_find_near_duplicates ==
    /\ pc = "report"
    /\ Len(near_duplicates) < MaxReportedNear + MaxExcess
    /\ pc' = "find_near"
    /\ UNCHANGED <<corpus, raised, analyzer, scan, report, run, previous, calls>>

NextLarge ==
    \/ load_damage_files
    \/ load_location_files
    \/ load_opening_files
    \/ find_exact_duplicates
    \/ call_find_exact_duplicates
    \/ (Len(duplicates) >= MaxReportedDuplicates - 1 /\ StartScan(DefaultThreshold))
    \/ ScanAnchor
    \/ EndScan
    \/ call_find_near_duplicates
    \/ (Len(near_duplicates) >= MaxReportedNear - 2 /\ generate_report)

SpecLarge == InitLarge /\ [][NextLarge]_vars

(***************************************************************************)
(* The analysis run again over the same disk by a new PhraseAnalyzer, and  *)
(* find_near_duplicates called with other thresholds.                      *)
(***************************************************************************)
Thresholds == {30, DefaultThreshold, 101}

RerunPool == {p8, p10, w12}

\* the verbs of sword.json are any phrases of the pool, those of dagger.json
\* are occurrences of "abc defghi"
InitRerun ==
    \E d \in Disks(RerunPool, ScanSlots, MaxOcc) :
        /\ \A k \in 1..Len(d) : Slots[d[k].slot].file # 1 => d[k].phrase = p10
        /\ Start(d)

\* the script is started again: what the run before found is kept aside,
\* and the report it wrote is still on disk
Rerun ==
    /\ pc = "done"
    /\ run = 1
    /\ previous' = [run             |-> run,
                    threshold       |-> threshold,
                    duplicates      |-> duplicates,
                    near_duplicates |-> near_duplicates]
    /\ run' = run + 1
    /\ all_phrases' = <<>>
    /\ phrase_locations' = <<>>
    /\ duplicates' = <<>>
    /\ near_duplicates' = <<>>
    /\ unique_phrases' = <<>>
    /\ threshold' = DefaultThreshold
    /\ anchor' = 0
    /\ total_comparisons' = 0
    /\ comparisons' = <<>>
    /\ pc' = "load_damage"
    /\ UNCHANGED <<corpus, raised, report, calls>>

NextRerun ==
    \/ load_damage_files
    \/ load_location_files
    \/ load_opening_files
    \/ find_exact_duplicates
    \/ \E t \in Thresholds : StartScan(t)
    \/ ScanAnchor
    \/ EndScan
    \/ generate_report
    \/ Rerun

SpecRerun == InitRerun /\ [][NextRerun]_vars

(***************************************************************************)
(* Corpora held by the verbs of one damage file: what the scan draws and   *)
(* emits depends on the phrases, not on the files they come from.          *)
(***************************************************************************)
InitVerbs == \E d \in Disks(PhrasePool, {1}, MaxOcc) : Start(d)

SpecVerbs == InitVerbs /\ [][Next]_vars

\* corpora of long phrases, held by the verbs of one damage file
InitLong == \E d \in Disks(LongPool, {1}, MaxOcc) : Start(d)

SpecLong == InitLong /\ [][Next]_vars

(***************************************************************************)
(* similarity_ratio called on its own.                                     *)
(***************************************************************************)
RatioAlphabet == {"a", "b", "c"}

InitRatio ==
    /\ disk = <<>>
    /\ pc = "ratio"
    /\ Constructed
    /\ unique_phrases = <<>>
    /\ threshold = DefaultThreshold
    /\ anchor = 0
    /\ total_comparisons = 0
    /\ comparisons = <<>>
    /\ report = NoReport
    /\ run = 1
    /\ previous = NoPrevious
    /\ unreadable = {}
    /\ glob_order = <<>>
    /\ raised = "none"
    /\ normalize_call = NoNormalizeCall
    /\ NoFixer
    /\ \E s1, s2 \in SeqsUpTo(RatioAlphabet, MaxStrLen) :
          ratio_call = [str1 |-> s1, str2 |-> s2, ratio |-> <<>>]

CallSimilarityRatio ==
    /\ pc = "ratio"
    /\ ratio_call' = [ratio_call EXCEPT !.ratio = similarity_ratio(ratio_call.str1,
                                                                    ratio_call.str2)]
    /\ pc' = "ratio_done"
    /\ UNCHANGED <<corpus, raised, analyzer, scan, report, run, previous, normalize_call,
                   module_name, FILE_REPLACEMENTS, json_files, changes, total_changes,
                   changes_made>>

NextRatio == CallSimilarityRatio

SpecRatio == InitRatio /\ [][NextRatio]_vars

(***************************************************************************)
(* normalize_phrase called on its own, and again on what it returned.      *)
(***************************************************************************)
\* a lower-case and an upper-case letter, the space, the vertical tab, the
\* full stop (ignorable for case), U+0130, whose lower case is two
\* characters, U+03A3 (Sigma), whose lower case depends on its neighbours,
\* and U+210B (script capital H), an upper-case letter that has no lower case
NormalizeAlphabet == {"a", "B", " ", "\\x0b", ".", "\\u0130", "\\u03a3", "\\u210b"}

InitNormalize ==
    /\ disk = <<>>
    /\ unreadable = {}
    /\ glob_order = <<>>
    /\ pc = "normalize"
    /\ raised = "none"
    /\ Constructed
    /\ unique_phrases = <<>>
    /\ threshold = DefaultThreshold
    /\ anchor = 0
    /\ total_comparisons = 0
    /\ comparisons = <<>>
    /\ report = NoReport
    /\ run = 1
    /\ previous = NoPrevious
    /\ ratio_call = NoCall
    /\ NoFixer
    /\ \E phrase \in SeqsUpTo(NormalizeAlphabet, MaxPhraseLen) :
          normalize_call = [NoNormalizeCall EXCEPT !.phrase = phrase]

CallNormalizePhrase ==
    /\ pc = "normalize"
    /\ normalize_call' = [normalize_call EXCEPT
                              !.returned = TRUE,
                              !.result = normalize_phrase(normalize_call.phrase)]
    /\ pc' = "normalize_again"
    /\ UNCHANGED <<corpus, raised, analyzer, scan, report, run, previous, ratio_call,
                   module_name, FILE_REPLACEMENTS, json_files, changes, total_changes,
                   changes_made>>

CallNormalizeAgain ==
    /\ pc = "normalize_again"
    /\ normalize_call' = [normalize_call EXCEPT
                              !.again = normalize_phrase(normalize_call.result)]
    /\ pc' = "normalize_done"
    /\ UNCHANGED <<corpus, raised, analyzer, scan, report, run, previous, ratio_call,
                   module_name, FILE_REPLACEMENTS, json_files, changes, total_changes,
                   changes_made>>

NextNormalize == CallNormalizePhrase \/ CallNormalizeAgain

SpecNormalize == InitNormalize /\ [][NextNormalize]_vars

(***************************************************************************)
(* The corpus-fixing scripts.  A JSON value is kept as its type and its    *)
(* content: the characters of a string, the items of a list, the items     *)
(* <<key, value>> of an object in the order of its keys, the text of any   *)
(* other value.                                                            *)
(***************************************************************************)
Json(type, val) == [type |-> type, val |-> val]

\* the file does not exist
Missing == Json("missing", <<>>)

RECURSIVE Sum(_)
Sum(numbers) == IF numbers = <<>> THEN 0 ELSE Head(numbers) + Sum(Tail(numbers))

(***************************************************************************)
(* Paths and keys.  A path is kept as the parts pathlib splits it into, a  *)
(* part of a path and a key of an object as their characters.              *)
(***************************************************************************)
\* the printable ASCII characters, from U+0020 to U+007E
Ascii ==
    <<
      " ", "!", "\"", "#", "$", "%", "&", "'", "(", ")", "*", "+", ",", "-", ".", "/",
      "0", "1", "2", "3", "4", "5", "6", "7", "8", "9", ":", ";", "<", "=", ">", "?",
      "@", "A", "B", "C", "D", "E", "F", "G", "H", "I", "J", "K", "L", "M", "N", "O",
      "P", "Q", "R", "S", "T", "U", "V", "W", "X", "Y", "Z", "[", "\\", "]", "^", "_",
      "\\x60", "a", "b", "c", "d", "e", "f", "g", "h", "i", "j", "k", "l", "m", "n", "o",
      "p", "q", "r", "s", "t", "u", "v", "w", "x", "y", "z", "{", "|", "}", "~" >>

\* ord(c)
CodePoint(c) ==
    LET others == <<
            <<"\t", 9>>, <<"\n", 10>>, <<"\\x0b", 11>>, <<"\f", 12>>, <<"\r", 13>>,
            <<"\\x1c", 28>>, <<"\\x1d", 29>>, <<"\\x1e", 30>>, <<"\\x1f", 31>>,
            <<"\\x85", 133>>, <<"\\xa0", 160>>, <<"\\xc9", 201>>, <<"\\xe9", 233>>,
            <<"\\u0130", 304>>, <<"\\u0131", 305>>, <<"\\u017f", 383>>,
            <<"\\u0307", 775>>, <<"\\u0391", 913>>, <<"\\u03a3", 931>>,
            <<"\\u03b1", 945>>, <<"\\u03c2", 962>>, <<"\\u03c3", 963>>,
            <<"\\u1680", 5760>>, <<"\\u2000", 8192>>, <<"\\u2001", 8193>>,
            <<"\\u2002", 8194>>, <<"\\u2003", 8195>>, <<"\\u2004", 8196>>,
            <<"\\u2005", 8197>>, <<"\\u2006", 8198>>, <<"\\u2007", 8199>>,
            <<"\\u2008", 8200>>, <<"\\u2009", 8201>>, <<"\\u200a", 8202>>,
            <<"\\u2028", 8232>>, <<"\\u2029", 8233>>, <<"\\u202f", 8239>>,
            <<"\\u205f", 8287>>, <<"\\u210b", 8459>>, <<"\\u212a", 8490>>,
            <<"\\u3000", 12288>> >>
    IN  IF \E k \in 1..Len(Ascii) : Ascii[k] = c
        THEN 31 + (CHOOSE k \in 1..Len(Ascii) : Ascii[k] = c)
        ELSE others[CHOOSE k \in 1..Len(others) : others[k][1] = c][2]

\* s < t on two str, compared character by character from the left: the
\* first characters that differ decide by their code points, and a proper
\* prefix comes first
LessText(s, t) ==
    \E k \in 1..Len(t) :
        /\ \A j \in 1..(k - 1) : j <= Len(s) /\ s[j] = t[j]
        /\ k > Len(s) \/ CodePoint(s[k]) < CodePoint(t[k])

\* p < q on two Path: the lists of their parts are compared part by part
\* from the left, the first parts that differ decide as str do, and a
\* proper prefix comes first
LessPath(p, q) ==
    \E k \in 1..Len(q) :
        /\ \A j \in 1..(k - 1) : j <= Len(p) /\ p[j] = q[j]
        /\ k > Len(p) \/ LessText(p[k], q[k])

\* sorted(paths)
SortedPaths(paths) ==
    CHOOSE sorted \in
        {AsSeq([k \in 1..Cardinality(paths) |-> CHOOSE p \in paths : rank[p] = k]) :
            rank \in {[p \in paths |-> 1 + Cardinality({q \in paths : LessPath(q, p)})]}} :
        TRUE

\* Path('data/combat/openings')
data_dir == <<<<"d","a","t","a">>, <<"c","o","m","b","a","t">>, <<"o","p","e","n","i","n","g","s">>>>

(***************************************************************************)
(* fix_weapon_references.py                                                *)
(***************************************************************************)
\* SWORD_REPLACEMENTS: of each rule (r'\b...\b', replacement) the text between
\* the two \b and the replacement
SWORD_REPLACEMENTS == <<
    <<<<"t","h","e"," ","w","a","k","i","z","a","s","h","i">>,
      <<"t","h","e"," ","b","l","a","d","e">>>>,
    <<<<"w","a","k","i","z","a","s","h","i">>,
      <<"b","l","a","d","e">>>>,
    <<<<"t","h","e"," ","t","a","c","h","i">>,
      <<"t","h","e"," ","b","l","a","d","e">>>>,
    <<<<"t","a","c","h","i">>,
      <<"b","l","a","d","e">>>>,
    <<<<"s","a","y","a","-","b","i","k","i"," ","d","r","a","w">>,
      <<"q","u","i","c","k"," ","d","r","a","w">>>>,
    <<<<"s","a","y","a","-","b","i","k","i">>,
      <<"d","r","a","w">>>>,
    <<<<"k","i","s","s","a","k","i">>,
      <<"p","o","i","n","t">>>>,
    <<<<"t","e","n","o","u","c","h","i"," ","g","r","i","p">>,
      <<"g","r","i","p">>>>,
    <<<<"t","e","n","o","u","c","h","i">>,
      <<"g","r","i","p">>>>,
    <<<<"k","i","r","i","o","t","o","s","h","i">>,
      <<"c","u","t","t","i","n","g"," ","s","t","r","i","k","e">>>>,
    <<<<"k","e","s","a","-","g","i","r","i">>,
      <<"d","i","a","g","o","n","a","l"," ","c","u","t">>>>,
    <<<<"d","o","-","g","i","r","i">>,
      <<"h","o","r","i","z","o","n","t","a","l"," ","c","u","t">>>>,
    <<<<"m","u","s","h","i","n"," ","p","e","r","f","e","c","t","i","o","n">>,
      <<"p","e","r","f","e","c","t"," ","f","o","c","u","s">>>>,
    <<<<"m","u","s","h","i","n">>,
      <<"f","o","c","u","s","e","d">>>>,
    <<<<"i","a","i"," ","g","e","o","m","e","t","r","y">>,
      <<"p","e","r","f","e","c","t"," ","f","o","r","m">>>>,
    <<<<"i","a","i">>,
      <<"d","r","a","w">>>>,
    <<<<"t","h","e"," ","p","e","r","f","e","c","t"," ","Z","w","e","r","c","h","h","a","u">>,
      <<"t","h","e"," ","p","e","r","f","e","c","t"," ","d","i","a","g","o","n","a","l"," ","s",
        "t","r","i","k","e">>>>,
    <<<<"a"," ","c","o","m","p","e","t","e","n","t"," ","Z","w","e","r","c","h","h","a","u">>,
      <<"a"," ","c","o","m","p","e","t","e","n","t"," ","d","i","a","g","o","n","a","l"," ","s",
        "t","r","i","k","e">>>>,
    <<<<"Z","w","e","r","c","h","h","a","u">>,
      <<"d","i","a","g","o","n","a","l"," ","s","t","r","i","k","e">>>>,
    <<<<"S","c","h","i","e","l","h","a","u">>,
      <<"a","n","g","l","e","d"," ","c","u","t">>>>,
    <<<<"O","b","e","r","h","a","u">>,
      <<"o","v","e","r","h","e","a","d"," ","s","t","r","i","k","e">>>>,
    <<<<"U","n","t","e","r","h","a","u">>,
      <<"r","i","s","i","n","g"," ","c","u","t">>>>,
    <<<<"N","e","b","e","n","h","u","t"," ","g","u","a","r","d">>,
      <<"s","i","d","e"," ","g","u","a","r","d">>>>,
    <<<<"N","e","b","e","n","h","u","t">>,
      <<"g","u","a","r","d">>>>,
    <<<<"K","r","u","m","p","h","a","u">>,
      <<"h","o","o","k","i","n","g"," ","s","t","r","i","k","e">>>>,
    <<<<"S","h","i","e","l","h","a","u">>,
      <<"s","q","u","i","n","t","i","n","g"," ","c","u","t">>>>,
    <<<<"t","h","e"," ","L","i","e","c","h","t","e","n","a","u","e","r"," ","m","a","s","t","e",
      "r"," ","s","t","r","i","k","e">>,
      <<"t","h","e"," ","m","a","s","t","e","r"," ","s","t","r","i","k","e">>>>,
    <<<<"L","i","e","c","h","t","e","n","a","u","e","r">>,
      <<"a"," ","m","a","s","t","e","r">>>>,
    <<<<"t","h","e"," ","F","i","o","r","e"," ","d","e","i"," ","L","i","b","e","r","i"," ","k",
      "i","l","l","i","n","g"," ","b","l","o","w">>,
      <<"t","h","e"," ","k","i","l","l","i","n","g"," ","b","l","o","w">>>>,
    <<<<"F","i","o","r","e"," ","d","e","i"," ","L","i","b","e","r","i">>,
      <<"a"," ","m","a","s","t","e","r">>>>,
    <<<<"t","h","e"," ","M","e","y","e","r"," ","m","a","s","t","e","r"," ","c","u","t">>,
      <<"t","h","e"," ","m","a","s","t","e","r"," ","c","u","t">>>>,
    <<<<"M","e","y","e","r">>,
      <<"a"," ","m","a","s","t","e","r">>>>,
    <<<<"t","h","e"," ","T","h","i","b","a","u","l","t","'","s"," ","p","e","r","f","e","c","t",
      " ","t","h","r","u","s","t">>,
      <<"t","h","e"," ","p","e","r","f","e","c","t"," ","t","h","r","u","s","t">>>>,
    <<<<"T","h","i","b","a","u","l","t","'","s">>,
      <<"a"," ","m","a","s","t","e","r","'","s">>>>,
    <<<<"a"," ","V","e","r","d","a","d","e","r","a"," ","D","e","s","t","r","e","z","a"," ","m",
      "a","s","t","e","r","p","i","e","c","e">>,
      <<"a"," ","m","a","s","t","e","r","f","u","l"," ","s","t","r","i","k","e">>>>,
    <<<<"V","e","r","d","a","d","e","r","a"," ","D","e","s","t","r","e","z","a">>,
      <<"m","a","s","t","e","r","f","u","l"," ","t","e","c","h","n","i","q","u","e">>>>,
    <<<<"t","h","e"," ","l","o","n","g","s","w","o","r","d">>,
      <<"t","h","e"," ","s","w","o","r","d">>>>,
    <<<<"l","o","n","g","s","w","o","r","d">>,
      <<"s","w","o","r","d">>>>,
    <<<<"t","h","e"," ","r","a","p","i","e","r">>,
      <<"t","h","e"," ","b","l","a","d","e">>>>,
    <<<<"r","a","p","i","e","r">>,
      <<"b","l","a","d","e">>>>,
    <<<<"t","h","e"," ","k","a","t","a","n","a">>,
      <<"t","h","e"," ","b","l","a","d","e">>>>,
    <<<<"k","a","t","a","n","a">>,
      <<"b","l","a","d","e">>>>,
    <<<<"t","h","e"," ","s","c","i","m","i","t","a","r">>,
      <<"t","h","e"," ","c","u","r","v","e","d"," ","b","l","a","d","e">>>>,
    <<<<"s","c","i","m","i","t","a","r">>,
      <<"c","u","r","v","e","d"," ","b","l","a","d","e">>>>,
    <<<<"t","h","e"," ","s","a","b","r","e">>,
      <<"t","h","e"," ","c","u","r","v","e","d"," ","b","l","a","d","e">>>>,
    <<<<"s","a","b","r","e">>,
      <<"c","u","r","v","e","d"," ","b","l","a","d","e">>>>,
    <<<<"t","h","e"," ","s","a","b","e","r">>,
      <<"t","h","e"," ","c","u","r","v","e","d"," ","b","l","a","d","e">>>>,
    <<<<"s","a","b","e","r">>,
      <<"c","u","r","v","e","d"," ","b","l","a","d","e">>>>,
    <<<<"t","h","e"," ","g","r","e","a","t","s","w","o","r","d">>,
      <<"t","h","e"," ","g","r","e","a","t"," ","s","w","o","r","d">>>>,
    <<<<"g","r","e","a","t","s","w","o","r","d">>,
      <<"g","r","e","a","t"," ","s","w","o","r","d">>>>,
    <<<<"t","h","e"," ","s","h","o","r","t","s","w","o","r","d">>,
      <<"t","h","e"," ","s","h","o","r","t"," ","b","l","a","d","e">>>>,
    <<<<"s","h","o","r","t","s","w","o","r","d">>,
      <<"s","h","o","r","t"," ","b","l","a","d","e">>>>,
    <<<<"t","h","e"," ","b","r","o","a","d","s","w","o","r","d">>,
      <<"t","h","e"," ","b","l","a","d","e">>>>,
    <<<<"b","r","o","a","d","s","w","o","r","d">>,
      <<"b","l","a","d","e">>>>,
    <<<<"t","h","e"," ","c","l","a","y","m","o","r","e">>,
      <<"t","h","e"," ","g","r","e","a","t"," ","s","w","o","r","d">>>>,
    <<<<"c","l","a","y","m","o","r","e">>,
      <<"g","r","e","a","t"," ","s","w","o","r","d">>>>,
    <<<<"t","h","e"," ","g","l","a","d","i","u","s">>,
      <<"t","h","e"," ","b","l","a","d","e">>>>,
    <<<<"g","l","a","d","i","u","s">>,
      <<"b","l","a","d","e">>>>,
    <<<<"t","h","e"," ","c","u","t","l","a","s","s">>,
      <<"t","h","e"," ","b","l","a","d","e">>>>,
    <<<<"c","u","t","l","a","s","s">>,
      <<"b","l","a","d","e">>>>,
    <<<<"t","h","e"," ","j","i","a","n">>,
      <<"t","h","e"," ","b","l","a","d","e">>>>,
    <<<<"j","i","a","n">>,
      <<"b","l","a","d","e">>>>,
    <<<<"t","h","e"," ","d","a","o">>,
      <<"t","h","e"," ","c","u","r","v","e","d"," ","b","l","a","d","e">>>>,
    <<<<"d","a","o">>,
      <<"c","u","r","v","e","d"," ","b","l","a","d","e">>>>,
    <<<<"t","h","e"," ","k","h","o","p","e","s","h">>,
      <<"t","h","e"," ","h","o","o","k","e","d"," ","b","l","a","d","e">>>>,
    <<<<"k","h","o","p","e","s","h">>,
      <<"h","o","o","k","e","d"," ","b","l","a","d","e">>>>,
    <<<<"t","h","e"," ","t","u","l","w","a","r">>,
      <<"t","h","e"," ","c","u","r","v","e","d"," ","b","l","a","d","e">>>>,
    <<<<"t","u","l","w","a","r">>,
      <<"c","u","r","v","e","d"," ","b","l","a","d","e">>>>,
    <<<<"t","h","e"," ","t","a","l","w","a","r">>,
      <<"t","h","e"," ","c","u","r","v","e","d"," ","b","l","a","d","e">>>>,
    <<<<"t","a","l","w","a","r">>,
      <<"c","u","r","v","e","d"," ","b","l","a","d","e">>>>,
    <<<<"t","h","e"," ","s","h","a","m","s","h","i","r">>,
      <<"t","h","e"," ","c","u","r","v","e","d"," ","b","l","a","d","e">>>>,
    <<<<"s","h","a","m","s","h","i","r">>,
      <<"c","u","r","v","e","d"," ","b","l","a","d","e">>>>,
    <<<<"t","h","e"," ","b","a","s","t","a","r","d"," ","s","w","o","r","d">>,
      <<"t","h","e"," ","b","l","a","d","e">>>>,
    <<<<"b","a","s","t","a","r","d"," ","s","w","o","r","d">>,
      <<"b","l","a","d","e">>>>,
    <<<<"t","h","e"," ","s","m","a","l","l","s","w","o","r","d">>,
      <<"t","h","e"," ","l","i","g","h","t"," ","b","l","a","d","e">>>>,
    <<<<"s","m","a","l","l","s","w","o","r","d">>,
      <<"l","i","g","h","t"," ","b","l","a","d","e">>>>,
    <<<<"t","h","e"," ","f","a","l","c","h","i","o","n">>,
      <<"t","h","e"," ","h","e","a","v","y"," ","b","l","a","d","e">>>>,
    <<<<"f","a","l","c","h","i","o","n"," ","e","d","g","e">>,
      <<"b","l","a","d","e"," ","e","d","g","e">>>>,
    <<<<"f","a","l","c","h","i","o","n">>,
      <<"h","e","a","v","y"," ","b","l","a","d","e">>>>,
    <<<<"t","h","e"," ","e","s","t","o","c">>,
      <<"t","h","e"," ","b","l","a","d","e">>>>,
    <<<<"e","s","t","o","c">>,
      <<"b","l","a","d","e">>>>,
    <<<<"t","h","e"," ","z","w","e","i","h","a","n","d","e","r">>,
      <<"t","h","e"," ","g","r","e","a","t"," ","s","w","o","r","d">>>>,
    <<<<"z","w","e","i","h","a","n","d","e","r">>,
      <<"g","r","e","a","t"," ","s","w","o","r","d">>>>,
    <<<<"t","h","e"," ","k","r","i","e","g","s","m","e","s","s","e","r">>,
      <<"t","h","e"," ","h","e","a","v","y"," ","b","l","a","d","e">>>>,
    <<<<"k","r","i","e","g","s","m","e","s","s","e","r">>,
      <<"h","e","a","v","y"," ","b","l","a","d","e">>>>,
    <<<<"t","h","e"," ","s","p","a","d","o","n","e">>,
      <<"t","h","e"," ","g","r","e","a","t"," ","s","w","o","r","d">>>>,
    <<<<"s","p","a","d","o","n","e">>,
      <<"g","r","e","a","t"," ","s","w","o","r","d">>>>,
    <<<<"t","h","e"," ","m","o","n","t","a","n","t","e">>,
      <<"t","h","e"," ","g","r","e","a","t"," ","s","w","o","r","d">>>>,
    <<<<"m","o","n","t","a","n","t","e">>,
      <<"g","r","e","a","t"," ","s","w","o","r","d">>>>,
    <<<<"t","h","e"," ","m","i","a","o"," ","d","a","o">>,
      <<"t","h","e"," ","l","o","n","g"," ","b","l","a","d","e">>>>,
    <<<<"m","i","a","o"," ","d","a","o">>,
      <<"l","o","n","g"," ","b","l","a","d","e">>>>,
    <<<<"t","a","i","j","i"," ","g","e","o","m","e","t","r","y">>,
      <<"p","e","r","f","e","c","t"," ","f","o","r","m">>>>,
    <<<<"t","a","i","j","i"," ","p","r","e","c","i","s","i","o","n">>,
      <<"p","r","e","c","i","s","e"," ","t","e","c","h","n","i","q","u","e">>>>,
    <<<<"t","a","i","j","i">>,
      <<"f","l","o","w","i","n","g">>>>,
    <<<<"R","o","m","a","n"," ","p","r","e","c","i","s","i","o","n">>,
      <<"p","r","e","c","i","s","e"," ","t","e","c","h","n","i","q","u","e">>>>,
    <<<<"P","e","r","s","i","a","n"," ","p","r","e","c","i","s","i","o","n">>,
      <<"p","r","e","c","i","s","e"," ","t","e","c","h","n","i","q","u","e">>>>,
    <<<<"P","e","r","s","i","a","n"," ","f","i","n","a","l","i","t","y">>,
      <<"d","e","c","i","s","i","v","e"," ","f","o","r","c","e">>>>,
    <<<<"P","e","r","s","i","a","n"," ","c","a","v","a","l","r","y"," ","p","r","e","c","i","s",
      "i","o","n">>,
      <<"m","o","u","n","t","e","d"," ","p","r","e","c","i","s","i","o","n">>>>,
    <<<<"S","c","y","t","h","i","a","n"," ","s","a","v","a","g","e","r","y">>,
      <<"b","r","u","t","a","l"," ","f","o","r","c","e">>>>,
    <<<<"K","o","r","e","a","n"," ","p","e","r","f","e","c","t","i","o","n">>,
      <<"p","e","r","f","e","c","t"," ","t","e","c","h","n","i","q","u","e">>>>,
    <<<<"S","w","i","s","s"," ","p","r","e","c","i","s","i","o","n">>,
      <<"p","r","e","c","i","s","e"," ","t","e","c","h","n","i","q","u","e">>>>,
    <<<<"t","h","e"," ","s","h","a","m","s","h","e","e","r">>,
      <<"t","h","e"," ","c","u","r","v","e","d"," ","b","l","a","d","e">>>>,
    <<<<"s","h","a","m","s","h","e","e","r">>,
      <<"c","u","r","v","e","d"," ","b","l","a","d","e">>>>,
    <<<<"t","h","e"," ","t","a","n","t","o">>,
      <<"t","h","e"," ","s","h","o","r","t"," ","b","l","a","d","e">>>>,
    <<<<"t","a","n","t","o">>,
      <<"s","h","o","r","t"," ","b","l","a","d","e">>>>,
    <<<<"t","h","e"," ","f","l","a","i","l">>,
      <<"t","h","e"," ","w","e","a","p","o","n">>>>,
    <<<<"f","l","a","i","l">>,
      <<"w","e","a","p","o","n">>>>
    >>

\* HAMMER_REPLACEMENTS: of each rule (r'\b...\b', replacement) the text between
\* the two \b and the replacement
HAMMER_REPLACEMENTS == <<
    <<<<"t","h","e"," ","t","a","b","a","r","-","e","-","z","i","n">>,
      <<"t","h","e"," ","w","e","a","p","o","n">>>>,
    <<<<"t","a","b","a","r","-","e","-","z","i","n">>,
      <<"w","e","a","p","o","n">>>>,
    <<<<"t","h","e"," ","t","a","b","a","r">>,
      <<"t","h","e"," ","w","e","a","p","o","n">>>>,
    <<<<"t","a","b","a","r">>,
      <<"w","e","a","p","o","n">>>>,
    <<<<"t","h","e"," ","s","a","g","a","r","i","s">>,
      <<"t","h","e"," ","w","e","a","p","o","n">>>>,
    <<<<"s","a","g","a","r","i","s">>,
      <<"w","e","a","p","o","n">>>>,
    <<<<"t","h","e"," ","c","h","u","k","-","d","o">>,
      <<"t","h","e"," ","w","e","a","p","o","n">>>>,
    <<<<"c","h","u","k","-","d","o">>,
      <<"w","e","a","p","o","n">>>>,
    <<<<"t","h","e"," ","w","a","r","h","a","m","m","e","r">>,
      <<"t","h","e"," ","h","a","m","m","e","r">>>>,
    <<<<"w","a","r","h","a","m","m","e","r">>,
      <<"h","a","m","m","e","r">>>>,
    <<<<"t","h","e"," ","g","r","e","a","t","c","l","u","b">>,
      <<"t","h","e"," ","h","e","a","v","y"," ","w","e","a","p","o","n">>>>,
    <<<<"g","r","e","a","t","c","l","u","b">>,
      <<"h","e","a","v","y"," ","w","e","a","p","o","n">>>>,
    <<<<"t","h","e"," ","m","a","u","l">>,
      <<"t","h","e"," ","h","e","a","v","y"," ","w","e","a","p","o","n">>>>,
    <<<<"m","a","u","l">>,
      <<"h","e","a","v","y"," ","w","e","a","p","o","n">>>>,
    <<<<"t","h","e"," ","m","a","c","e">>,
      <<"t","h","e"," ","w","e","a","p","o","n">>>>,
    <<<<"m","a","c","e">>,
      <<"w","e","a","p","o","n">>>>,
    <<<<"t","h","e"," ","m","o","r","n","i","n","g"," ","s","t","a","r">>,
      <<"t","h","e"," ","s","p","i","k","e","d"," ","w","e","a","p","o","n">>>>,
    <<<<"m","o","r","n","i","n","g"," ","s","t","a","r">>,
      <<"s","p","i","k","e","d"," ","w","e","a","p","o","n">>>>,
    <<<<"t","h","e"," ","m","o","r","n","i","n","g","s","t","a","r">>,
      <<"t","h","e"," ","s","p","i","k","e","d"," ","w","e","a","p","o","n">>>>,
    <<<<"m","o","r","n","i","n","g","s","t","a","r">>,
      <<"s","p","i","k","e","d"," ","w","e","a","p","o","n">>>>,
    <<<<"t","h","e"," ","f","l","a","i","l">>,
      <<"t","h","e"," ","c","h","a","i","n","e","d"," ","w","e","a","p","o","n">>>>,
    <<<<"f","l","a","i","l">>,
      <<"c","h","a","i","n","e","d"," ","w","e","a","p","o","n">>>>,
    <<<<"t","h","e"," ","c","l","u","b">>,
      <<"t","h","e"," ","w","e","a","p","o","n">>>>,
    <<<<"c","l","u","b">>,
      <<"w","e","a","p","o","n">>>>,
    <<<<"t","h","e"," ","q","u","a","r","t","e","r","s","t","a","f","f">>,
      <<"t","h","e"," ","s","t","a","f","f">>>>,
    <<<<"q","u","a","r","t","e","r","s","t","a","f","f">>,
      <<"s","t","a","f","f">>>>,
    <<<<"t","h","e"," ","g","l","a","i","v","e","-","g","u","i","s","a","r","m","e">>,
      <<"t","h","e"," ","p","o","l","e","a","r","m">>>>,
    <<<<"g","l","a","i","v","e","-","g","u","i","s","a","r","m","e">>,
      <<"p","o","l","e","a","r","m">>>>,
    <<<<"t","h","e"," ","h","a","l","b","e","r","d">>,
      <<"t","h","e"," ","p","o","l","e","a","r","m">>>>,
    <<<<"h","a","l","b","e","r","d">>,
      <<"p","o","l","e","a","r","m">>>>,
    <<<<"t","h","e"," ","t","o","m","a","h","a","w","k">>,
      <<"t","h","e"," ","t","h","r","o","w","n"," ","w","e","a","p","o","n">>>>,
    <<<<"t","o","m","a","h","a","w","k">>,
      <<"t","h","r","o","w","n"," ","w","e","a","p","o","n">>>>
    >>

\* SPEAR_REPLACEMENTS: of each rule (r'\b...\b', replacement) the text between
\* the two \b and the replacement
SPEAR_REPLACEMENTS == <<
    <<<<"t","h","e"," ","l","o","c","h","a","b","e","r"," ","p","o","i","n","t">>,
      <<"t","h","e"," ","p","o","l","e","a","r","m"," ","p","o","i","n","t">>>>,
    <<<<"t","h","e"," ","l","o","c","h","a","b","e","r"," ","b","l","a","d","e">>,
      <<"t","h","e"," ","p","o","l","e","a","r","m"," ","b","l","a","d","e">>>>,
    <<<<"t","h","e"," ","l","o","c","h","a","b","e","r">>,
      <<"t","h","e"," ","p","o","l","e","a","r","m">>>>,
    <<<<"l","o","c","h","a","b","e","r"," ","p","o","i","n","t">>,
      <<"p","o","l","e","a","r","m"," ","p","o","i","n","t">>>>,
    <<<<"l","o","c","h","a","b","e","r"," ","b","l","a","d","e">>,
      <<"p","o","l","e","a","r","m"," ","b","l","a","d","e">>>>,
    <<<<"l","o","c","h","a","b","e","r">>,
      <<"p","o","l","e","a","r","m">>>>,
    <<<<"t","h","e"," ","p","a","r","t","i","z","a","n"," ","p","o","i","n","t">>,
      <<"t","h","e"," ","p","o","l","e","a","r","m"," ","p","o","i","n","t">>>>,
    <<<<"t","h","e"," ","p","a","r","t","i","z","a","n"," ","b","l","a","d","e">>,
      <<"t","h","e"," ","p","o","l","e","a","r","m"," ","b","l","a","d","e">>>>,
    <<<<"t","h","e"," ","p","a","r","t","i","z","a","n">>,
      <<"t","h","e"," ","p","o","l","e","a","r","m">>>>,
    <<<<"p","a","r","t","i","z","a","n"," ","p","o","i","n","t">>,
      <<"p","o","l","e","a","r","m"," ","p","o","i","n","t">>>>,
    <<<<"p","a","r","t","i","z","a","n"," ","b","l","a","d","e">>,
      <<"p","o","l","e","a","r","m"," ","b","l","a","d","e">>>>,
    <<<<"p","a","r","t","i","z","a","n">>,
      <<"p","o","l","e","a","r","m">>>>,
    <<<<"t","h","e"," ","p","o","l","l","s","p","e","a","r">>,
      <<"t","h","e"," ","p","o","l","e","a","r","m">>>>,
    <<<<"p","o","l","l","s","p","e","a","r">>,
      <<"p","o","l","e","a","r","m">>>>,
    <<<<"t","h","e"," ","c","r","e","s","c","e","n","t"," ","s","p","e","a","r">>,
      <<"t","h","e"," ","c","u","r","v","e","d"," ","p","o","l","e","a","r","m">>>>,
    <<<<"c","r","e","s","c","e","n","t"," ","s","p","e","a","r">>,
      <<"c","u","r","v","e","d"," ","p","o","l","e","a","r","m">>>>,
    <<<<"t","h","e"," ","b","a","r","d","i","c","h","e"," ","b","l","a","d","e">>,
      <<"t","h","e"," ","p","o","l","e","a","r","m"," ","b","l","a","d","e">>>>,
    <<<<"t","h","e"," ","b","a","r","d","i","c","h","e">>,
      <<"t","h","e"," ","p","o","l","e","a","r","m">>>>,
    <<<<"b","a","r","d","i","c","h","e"," ","b","l","a","d","e">>,
      <<"p","o","l","e","a","r","m"," ","b","l","a","d","e">>>>,
    <<<<"b","a","r","d","i","c","h","e">>,
      <<"p","o","l","e","a","r","m">>>>,
    <<<<"t","h","e"," ","j","i"," ","b","l","a","d","e">>,
      <<"t","h","e"," ","p","o","l","e","a","r","m"," ","b","l","a","d","e">>>>,
    <<<<"j","i"," ","b","l","a","d","e">>,
      <<"p","o","l","e","a","r","m"," ","b","l","a","d","e">>>>,
    <<<<"A","x","e"," ","w","e","i","g","h","t">>,
      <<"W","e","a","p","o","n"," ","w","e","i","g","h","t">>>>,
    <<<<"A","x","e"," ","h","e","a","d">>,
      <<"S","p","e","a","r"," ","h","e","a","d">>>>,
    <<<<"A","x","e"," ","m","o","m","e","n","t","u","m">>,
      <<"W","e","a","p","o","n"," ","m","o","m","e","n","t","u","m">>>>,
    <<<<"T","h","e"," ","d","a","r","t"," ","r","o","t","a","t","e","s">>,
      <<"T","h","e"," ","p","r","o","j","e","c","t","i","l","e"," ","f","l","i","e","s">>>>,
    <<<<"t","h","e"," ","d","a","r","t">>,
      <<"t","h","e"," ","p","r","o","j","e","c","t","i","l","e">>>>,
    <<<<"I","t","a","l","i","a","n"," ","f","u","r","y">>,
      <<"f","i","e","r","c","e"," ","p","o","w","e","r">>>>,
    <<<<"E","a","s","t","e","r","n"," ","E","u","r","o","p","e","a","n"," ","f","u","r","y">>,
      <<"f","i","e","r","c","e"," ","p","o","w","e","r">>>>,
    <<<<"a","n","c","i","e","n","t"," ","C","h","i","n","e","s","e"," ","p","r","e","c","i","s",
      "i","o","n">>,
      <<"a","n","c","i","e","n","t"," ","p","r","e","c","i","s","i","o","n">>>>,
    <<<<"C","h","i","n","e","s","e"," ","p","r","e","c","i","s","i","o","n">>,
      <<"p","r","e","c","i","s","e"," ","t","e","c","h","n","i","q","u","e">>>>,
    <<<<"E","a","s","t","e","r","n"," ","a","r","c">>,
      <<"s","w","e","e","p","i","n","g"," ","a","r","c">>>>,
    <<<<"P","e","r","s","i","a","n"," ","p","r","e","c","i","s","i","o","n">>,
      <<"p","r","e","c","i","s","e"," ","t","e","c","h","n","i","q","u","e">>>>,
    <<<<"P","e","r","s","i","a","n"," ","c","a","v","a","l","r","y"," ","p","r","e","c","i","s",
      "i","o","n">>,
      <<"m","o","u","n","t","e","d"," ","p","r","e","c","i","s","i","o","n">>>>,
    <<<<"P","e","r","s","i","a","n"," ","f","i","n","a","l","i","t","y">>,
      <<"d","e","c","i","s","i","v","e"," ","f","o","r","c","e">>>>,
    <<<<"S","c","y","t","h","i","a","n"," ","s","a","v","a","g","e","r","y">>,
      <<"b","r","u","t","a","l"," ","f","o","r","c","e">>>>,
    <<<<"K","o","r","e","a","n"," ","p","e","r","f","e","c","t","i","o","n">>,
      <<"p","e","r","f","e","c","t"," ","t","e","c","h","n","i","q","u","e">>>>,
    <<<<"S","w","i","s","s"," ","p","r","e","c","i","s","i","o","n">>,
      <<"p","r","e","c","i","s","e"," ","t","e","c","h","n","i","q","u","e">>>>,
    <<<<"p","e","r","f","e","c","t"," ","s","a","v","a","g","e"," ","t","e","c","h","n","i","q",
      "u","e">>,
      <<"p","e","r","f","e","c","t"," ","b","r","u","t","a","l"," ","t","e","c","h","n","i","q",
        "u","e">>>>,
    <<<<"s","a","v","a","g","e"," ","t","e","c","h","n","i","q","u","e">>,
      <<"b","r","u","t","a","l"," ","t","e","c","h","n","i","q","u","e">>>>,
    <<<<"m","u","l","t","i","-","p","r","o","n","g","e","d"," ","s","p","e","a","r","-","e","-",
      "z","i","n">>,
      <<"m","u","l","t","i","-","p","r","o","n","g","e","d"," ","s","p","e","a","r">>>>,
    <<<<"s","p","e","a","r","-","e","-","z","i","n">>,
      <<"s","p","e","a","r">>>>,
    <<<<"p","o","l","e","a","r","m"," ","s","p","e","a","r","-","p","o","i","n","t">>,
      <<"p","o","l","e","a","r","m"," ","p","o","i","n","t">>>>,
    <<<<"t","h","e"," ","b","a","t","t","l","e"," ","s","p","e","a","r">>,
      <<"t","h","e"," ","s","p","e","a","r">>>>,
    <<<<"b","a","t","t","l","e"," ","s","p","e","a","r">>,
      <<"s","p","e","a","r">>>>,
    <<<<"t","h","e"," ","p","i","k","e">>,
      <<"t","h","e"," ","p","o","l","e","a","r","m">>>>,
    <<<<"p","i","k","e">>,
      <<"p","o","l","e","a","r","m">>>>,
    <<<<"t","h","e"," ","h","a","l","b","e","r","d">>,
      <<"t","h","e"," ","p","o","l","e","a","r","m">>>>,
    <<<<"h","a","l","b","e","r","d">>,
      <<"p","o","l","e","a","r","m">>>>,
    <<<<"t","h","e"," ","g","l","a","i","v","e">>,
      <<"t","h","e"," ","p","o","l","e","a","r","m">>>>,
    <<<<"g","l","a","i","v","e">>,
      <<"p","o","l","e","a","r","m">>>>,
    <<<<"t","h","e"," ","l","a","n","c","e">>,
      <<"t","h","e"," ","s","p","e","a","r">>>>,
    <<<<"l","a","n","c","e">>,
      <<"s","p","e","a","r">>>>,
    <<<<"t","h","e"," ","j","a","v","e","l","i","n">>,
      <<"t","h","e"," ","s","p","e","a","r">>>>,
    <<<<"j","a","v","e","l","i","n">>,
      <<"s","p","e","a","r">>>>,
    <<<<"t","h","e"," ","t","r","i","d","e","n","t">>,
      <<"t","h","e"," ","m","u","l","t","i","-","p","r","o","n","g","e","d"," ","s","p","e","a",
        "r">>>>,
    <<<<"t","r","i","d","e","n","t">>,
      <<"m","u","l","t","i","-","p","r","o","n","g","e","d"," ","s","p","e","a","r">>>>,
    <<<<"t","h","e"," ","n","a","g","i","n","a","t","a">>,
      <<"t","h","e"," ","p","o","l","e","a","r","m">>>>,
    <<<<"n","a","g","i","n","a","t","a">>,
      <<"p","o","l","e","a","r","m">>>>,
    <<<<"t","h","e"," ","s","p","l","i","t","t","i","n","g"," ","m","a","u","l">>,
      <<"t","h","e"," ","h","e","a","v","y"," ","w","e","a","p","o","n">>>>,
    <<<<"s","p","l","i","t","t","i","n","g"," ","m","a","u","l">>,
      <<"h","e","a","v","y"," ","w","e","a","p","o","n">>>>,
    <<<<"t","h","e"," ","t","o","m","a","h","a","w","k">>,
      <<"t","h","e"," ","t","h","r","o","w","n"," ","w","e","a","p","o","n">>>>,
    <<<<"t","o","m","a","h","a","w","k">>,
      <<"t","h","r","o","w","n"," ","w","e","a","p","o","n">>>>
    >>

\* DAGGER_REPLACEMENTS: of each rule (r'\b...\b', replacement) the text between
\* the two \b and the replacement
DAGGER_REPLACEMENTS == <<
    <<<<"t","h","e"," ","l","o","c","h","a","b","e","r"," ","d","a","g","g","e","r">>,
      <<"t","h","e"," ","b","l","a","d","e">>>>,
    <<<<"l","o","c","h","a","b","e","r"," ","d","a","g","g","e","r">>,
      <<"b","l","a","d","e">>>>,
    <<<<"t","h","e"," ","p","a","r","t","i","z","a","n"," ","d","a","g","g","e","r">>,
      <<"t","h","e"," ","b","l","a","d","e">>>>,
    <<<<"p","a","r","t","i","z","a","n"," ","d","a","g","g","e","r">>,
      <<"b","l","a","d","e">>>>,
    <<<<"t","h","e"," ","w","a","k","i","z","a","s","h","i">>,
      <<"t","h","e"," ","b","l","a","d","e">>>>,
    <<<<"w","a","k","i","z","a","s","h","i">>,
      <<"b","l","a","d","e">>>>,
    <<<<"I","t","a","l","i","a","n"," ","f","u","r","y">>,
      <<"f","i","e","r","c","e"," ","p","o","w","e","r">>>>,
    <<<<"E","a","s","t","e","r","n"," ","E","u","r","o","p","e","a","n"," ","f","u","r","y">>,
      <<"f","i","e","r","c","e"," ","p","o","w","e","r">>>>,
    <<<<"C","h","i","n","e","s","e"," ","p","r","e","c","i","s","i","o","n">>,
      <<"p","r","e","c","i","s","e"," ","t","e","c","h","n","i","q","u","e">>>>,
    <<<<"E","a","s","t","e","r","n"," ","a","r","c">>,
      <<"s","w","e","e","p","i","n","g"," ","a","r","c">>>>,
    <<<<"P","e","r","s","i","a","n"," ","p","r","e","c","i","s","i","o","n">>,
      <<"p","r","e","c","i","s","e"," ","t","e","c","h","n","i","q","u","e">>>>,
    <<<<"P","e","r","s","i","a","n"," ","c","a","v","a","l","r","y"," ","p","r","e","c","i","s",
      "i","o","n">>,
      <<"m","o","u","n","t","e","d"," ","p","r","e","c","i","s","i","o","n">>>>,
    <<<<"P","e","r","s","i","a","n"," ","f","i","n","a","l","i","t","y">>,
      <<"d","e","c","i","s","i","v","e"," ","f","o","r","c","e">>>>,
    <<<<"S","c","y","t","h","i","a","n"," ","s","a","v","a","g","e","r","y">>,
      <<"b","r","u","t","a","l"," ","f","o","r","c","e">>>>,
    <<<<"K","o","r","e","a","n"," ","p","e","r","f","e","c","t","i","o","n">>,
      <<"p","e","r","f","e","c","t"," ","t","e","c","h","n","i","q","u","e">>>>,
    <<<<"S","w","i","s","s"," ","p","r","e","c","i","s","i","o","n">>,
      <<"p","r","e","c","i","s","e"," ","t","e","c","h","n","i","q","u","e">>>>,
    <<<<"b","l","a","d","e","-","e","-","z","i","n">>,
      <<"b","l","a","d","e">>>>,
    <<<<"b","o","w","i","e"," ","k","n","i","f","e"," ","d","a","g","g","e","r","-","b","l","a",
      "d","e">>,
      <<"h","e","a","v","y"," ","b","l","a","d","e">>>>,
    <<<<"t","h","e"," ","s","t","i","l","e","t","t","o">>,
      <<"t","h","e"," ","d","a","g","g","e","r">>>>,
    <<<<"s","t","i","l","e","t","t","o">>,
      <<"d","a","g","g","e","r">>>>,
    <<<<"t","h","e"," ","k","u","k","r","i">>,
      <<"t","h","e"," ","c","u","r","v","e","d"," ","b","l","a","d","e">>>>,
    <<<<"k","u","k","r","i">>,
      <<"c","u","r","v","e","d"," ","b","l","a","d","e">>>>,
    <<<<"t","h","e"," ","d","i","r","k">>,
      <<"t","h","e"," ","d","a","g","g","e","r">>>>,
    <<<<"d","i","r","k">>,
      <<"d","a","g","g","e","r">>>>,
    <<<<"t","h","e"," ","t","a","n","t","o">>,
      <<"t","h","e"," ","b","l","a","d","e">>>>,
    <<<<"t","a","n","t","o">>,
      <<"b","l","a","d","e">>>>,
    <<<<"t","h","e"," ","k","r","i","s">>,
      <<"t","h","e"," ","w","a","v","y"," ","b","l","a","d","e">>>>,
    <<<<"k","r","i","s">>,
      <<"w","a","v","y"," ","b","l","a","d","e">>>>,
    <<<<"t","h","e"," ","m","a","i","n"," ","g","a","u","c","h","e">>,
      <<"t","h","e"," ","p","a","r","r","y","i","n","g"," ","d","a","g","g","e","r">>>>,
    <<<<"m","a","i","n"," ","g","a","u","c","h","e">>,
      <<"p","a","r","r","y","i","n","g"," ","d","a","g","g","e","r">>>>,
    <<<<"t","h","e"," ","p","o","l","e","d","a","g","g","e","r">>,
      <<"t","h","e"," ","l","o","n","g"," ","d","a","g","g","e","r">>>>,
    <<<<"p","o","l","e","d","a","g","g","e","r">>,
      <<"l","o","n","g"," ","d","a","g","g","e","r">>>>,
    <<<<"t","h","e"," ","h","a","l","b","e","r","d">>,
      <<"t","h","e"," ","w","e","a","p","o","n">>>>,
    <<<<"h","a","l","b","e","r","d">>,
      <<"w","e","a","p","o","n">>>>,
    <<<<"t","h","e"," ","t","h","r","o","w","i","n","g"," ","k","n","i","f","e">>,
      <<"t","h","e"," ","t","h","r","o","w","n"," ","b","l","a","d","e">>>>,
    <<<<"t","h","r","o","w","i","n","g"," ","k","n","i","f","e">>,
      <<"t","h","r","o","w","n"," ","b","l","a","d","e">>>>,
    <<<<"t","h","e"," ","f","a","l","c","h","i","o","n"," ","d","a","g","g","e","r">>,
      <<"t","h","e"," ","h","e","a","v","y"," ","d","a","g","g","e","r">>>>,
    <<<<"f","a","l","c","h","i","o","n"," ","d","a","g","g","e","r">>,
      <<"h","e","a","v","y"," ","d","a","g","g","e","r">>>>,
    <<<<"t","h","e"," ","c","i","n","q","u","e","d","e","a"," ","t","r","i","d","e","n","t","-",
      "d","a","g","g","e","r">>,
      <<"t","h","e"," ","b","r","o","a","d"," ","d","a","g","g","e","r">>>>,
    <<<<"c","i","n","q","u","e","d","e","a"," ","t","r","i","d","e","n","t","-","d","a","g","g",
      "e","r">>,
      <<"b","r","o","a","d"," ","d","a","g","g","e","r">>>>,
    <<<<"t","h","e"," ","t","o","m","a","h","a","w","k">>,
      <<"t","h","e"," ","t","h","r","o","w","n"," ","w","e","a","p","o","n">>>>,
    <<<<"t","o","m","a","h","a","w","k">>,
      <<"t","h","r","o","w","n"," ","w","e","a","p","o","n">>>>,
    <<<<"t","h","e"," ","s","p","l","i","t","t","i","n","g"," ","m","a","u","l">>,
      <<"t","h","e"," ","h","e","a","v","y"," ","w","e","a","p","o","n">>>>,
    <<<<"s","p","l","i","t","t","i","n","g"," ","m","a","u","l">>,
      <<"h","e","a","v","y"," ","w","e","a","p","o","n">>>>,
    <<<<"t","h","e"," ","m","a","u","l">>,
      <<"t","h","e"," ","h","e","a","v","y"," ","w","e","a","p","o","n">>>>,
    <<<<"m","a","u","l">>,
      <<"h","e","a","v","y"," ","w","e","a","p","o","n">>>>
    >>

\* AXE_REPLACEMENTS: of each rule (r'\b...\b', replacement) the text between
\* the two \b and the replacement
AXE_REPLACEMENTS == <<
    <<<<"t","h","e"," ","l","o","c","h","a","b","e","r"," ","a","x","e">>,
      <<"t","h","e"," ","a","x","e">>>>,
    <<<<"l","o","c","h","a","b","e","r"," ","a","x","e">>,
      <<"a","x","e">>>>,
    <<<<"t","h","e"," ","l","o","c","h","a","b","e","r"," ","b","l","a","d","e">>,
      <<"t","h","e"," ","b","l","a","d","e">>>>,
    <<<<"l","o","c","h","a","b","e","r"," ","b","l","a","d","e">>,
      <<"b","l","a","d","e">>>>,
    <<<<"t","h","e"," ","l","o","c","h","a","b","e","r">>,
      <<"t","h","e"," ","a","x","e">>>>,
    <<<<"l","o","c","h","a","b","e","r">>,
      <<"a","x","e">>>>,
    <<<<"t","h","e"," ","p","a","r","t","i","z","a","n"," ","b","l","a","d","e">>,
      <<"t","h","e"," ","b","l","a","d","e">>>>,
    <<<<"p","a","r","t","i","z","a","n"," ","b","l","a","d","e">>,
      <<"b","l","a","d","e">>>>,
    <<<<"t","h","e"," ","p","a","r","t","i","z","a","n">>,
      <<"t","h","e"," ","p","o","l","e","a","r","m">>>>,
    <<<<"p","a","r","t","i","z","a","n">>,
      <<"p","o","l","e","a","r","m">>>>,
    <<<<"t","h","e"," ","b","a","r","d","i","c","h","e"," ","b","l","a","d","e">>,
      <<"t","h","e"," ","a","x","e"," ","b","l","a","d","e">>>>,
    <<<<"b","a","r","d","i","c","h","e"," ","b","l","a","d","e">>,
      <<"a","x","e"," ","b","l","a","d","e">>>>,
    <<<<"t","h","e"," ","b","a","r","d","i","c","h","e">>,
      <<"t","h","e"," ","a","x","e">>>>,
    <<<<"b","a","r","d","i","c","h","e">>,
      <<"a","x","e">>>>,
    <<<<"t","h","e"," ","j","i"," ","b","l","a","d","e">>,
      <<"t","h","e"," ","b","l","a","d","e">>>>,
    <<<<"j","i"," ","b","l","a","d","e">>,
      <<"b","l","a","d","e">>>>,
    <<<<"t","h","e"," ","t","a","b","a","r","-","e","-","z","i","n">>,
      <<"t","h","e"," ","a","x","e">>>>,
    <<<<"t","a","b","a","r","-","e","-","z","i","n">>,
      <<"a","x","e">>>>,
    <<<<"t","h","e"," ","t","a","b","a","r">>,
      <<"t","h","e"," ","a","x","e">>>>,
    <<<<"t","a","b","a","r">>,
      <<"a","x","e">>>>,
    <<<<"t","h","e"," ","s","a","g","a","r","i","s">>,
      <<"t","h","e"," ","a","x","e">>>>,
    <<<<"s","a","g","a","r","i","s">>,
      <<"a","x","e">>>>,
    <<<<"t","h","e"," ","c","h","u","k","-","d","o">>,
      <<"t","h","e"," ","a","x","e">>>>,
    <<<<"c","h","u","k","-","d","o">>,
      <<"a","x","e">>>>,
    <<<<"I","t","a","l","i","a","n"," ","f","u","r","y">>,
      <<"f","i","e","r","c","e"," ","p","o","w","e","r">>>>,
    <<<<"E","a","s","t","e","r","n"," ","E","u","r","o","p","e","a","n"," ","f","u","r","y">>,
      <<"f","i","e","r","c","e"," ","p","o","w","e","r">>>>,
    <<<<"a","n","c","i","e","n","t"," ","C","h","i","n","e","s","e"," ","p","r","e","c","i","s",
      "i","o","n">>,
      <<"a","n","c","i","e","n","t"," ","p","r","e","c","i","s","i","o","n">>>>,
    <<<<"C","h","i","n","e","s","e"," ","p","r","e","c","i","s","i","o","n">>,
      <<"p","r","e","c","i","s","e"," ","t","e","c","h","n","i","q","u","e">>>>,
    <<<<"E","a","s","t","e","r","n"," ","a","r","c">>,
      <<"s","w","e","e","p","i","n","g"," ","a","r","c">>>>,
    <<<<"P","e","r","s","i","a","n"," ","p","r","e","c","i","s","i","o","n">>,
      <<"p","r","e","c","i","s","e"," ","t","e","c","h","n","i","q","u","e">>>>,
    <<<<"P","e","r","s","i","a","n"," ","c","a","v","a","l","r","y"," ","p","r","e","c","i","s",
      "i","o","n">>,
      <<"m","o","u","n","t","e","d"," ","p","r","e","c","i","s","i","o","n">>>>,
    <<<<"P","e","r","s","i","a","n"," ","f","i","n","a","l","i","t","y">>,
      <<"d","e","c","i","s","i","v","e"," ","f","o","r","c","e">>>>,
    <<<<"S","c","y","t","h","i","a","n"," ","s","a","v","a","g","e","r","y">>,
      <<"b","r","u","t","a","l"," ","f","o","r","c","e">>>>,
    <<<<"K","o","r","e","a","n"," ","p","e","r","f","e","c","t","i","o","n">>,
      <<"p","e","r","f","e","c","t"," ","t","e","c","h","n","i","q","u","e">>>>,
    <<<<"S","w","i","s","s"," ","p","r","e","c","i","s","i","o","n">>,
      <<"p","r","e","c","i","s","e"," ","t","e","c","h","n","i","q","u","e">>>>,
    <<<<"t","h","e"," ","b","a","t","t","l","e","a","x","e">>,
      <<"t","h","e"," ","a","x","e">>>>,
    <<<<"b","a","t","t","l","e","a","x","e">>,
      <<"a","x","e">>>>,
    <<<<"t","h","e"," ","h","a","n","d","a","x","e">>,
      <<"t","h","e"," ","a","x","e">>>>,
    <<<<"h","a","n","d","a","x","e">>,
      <<"a","x","e">>>>,
    <<<<"t","h","e"," ","g","r","e","a","t","a","x","e">>,
      <<"t","h","e"," ","g","r","e","a","t"," ","a","x","e">>>>,
    <<<<"g","r","e","a","t","a","x","e">>,
      <<"g","r","e","a","t"," ","a","x","e">>>>,
    <<<<"t","h","e"," ","t","o","m","a","h","a","w","k">>,
      <<"t","h","e"," ","a","x","e">>>>,
    <<<<"t","o","m","a","h","a","w","k">>,
      <<"a","x","e">>>>,
    <<<<"t","h","e"," ","h","a","t","c","h","e","t">>,
      <<"t","h","e"," ","a","x","e">>>>,
    <<<<"h","a","t","c","h","e","t">>,
      <<"a","x","e">>>>,
    <<<<"t","h","e"," ","t","h","r","o","w","i","n","g"," ","a","x","e">>,
      <<"t","h","e"," ","a","x","e">>>>,
    <<<<"t","h","r","o","w","i","n","g"," ","a","x","e">>,
      <<"a","x","e">>>>,
    <<<<"t","h","e"," ","g","l","a","i","v","e","-","g","u","i","s","a","r","m","e">>,
      <<"t","h","e"," ","p","o","l","e","a","r","m">>>>,
    <<<<"g","l","a","i","v","e","-","g","u","i","s","a","r","m","e">>,
      <<"p","o","l","e","a","r","m">>>>,
    <<<<"t","h","e"," ","h","a","l","b","e","r","d">>,
      <<"t","h","e"," ","p","o","l","e","a","r","m">>>>,
    <<<<"h","a","l","b","e","r","d">>,
      <<"p","o","l","e","a","r","m">>>>,
    <<<<"t","h","e"," ","p","o","l","e","a","x","e">>,
      <<"t","h","e"," ","p","o","l","e","a","r","m">>>>,
    <<<<"p","o","l","e","a","x","e">>,
      <<"p","o","l","e","a","r","m">>>>,
    <<<<"t","h","e"," ","r","a","n","s","e","u","r"," ","t","r","i","d","e","n","t","-","a","x",
      "e">>,
      <<"t","h","e"," ","p","o","l","e","a","r","m">>>>,
    <<<<"r","a","n","s","e","u","r"," ","t","r","i","d","e","n","t","-","a","x","e">>,
      <<"p","o","l","e","a","r","m">>>>,
    <<<<"t","h","e"," ","g","l","a","i","v","e">>,
      <<"t","h","e"," ","p","o","l","e","a","r","m">>>>,
    <<<<"g","l","a","i","v","e">>,
      <<"p","o","l","e","a","r","m">>>>,
    <<<<"t","h","e"," ","s","p","l","i","t","t","i","n","g"," ","m","a","u","l">>,
      <<"t","h","e"," ","h","e","a","v","y"," ","w","e","a","p","o","n">>>>,
    <<<<"s","p","l","i","t","t","i","n","g"," ","m","a","u","l">>,
      <<"h","e","a","v","y"," ","w","e","a","p","o","n">>>>,
    <<<<"t","h","e"," ","m","a","u","l">>,
      <<"t","h","e"," ","h","e","a","v","y"," ","w","e","a","p","o","n">>>>,
    <<<<"m","a","u","l">>,
      <<"h","e","a","v","y"," ","w","e","a","p","o","n">>>>
    >>

\* THROWN_REPLACEMENTS: of each rule (r'\b...\b', replacement) the text between
\* the two \b and the replacement
THROWN_REPLACEMENTS == <<
    <<<<"t","h","e"," ","j","a","v","e","l","i","n">>,
      <<"t","h","e"," ","p","r","o","j","e","c","t","i","l","e">>>>,
    <<<<"j","a","v","e","l","i","n">>,
      <<"p","r","o","j","e","c","t","i","l","e">>>>,
    <<<<"t","h","e"," ","t","h","r","o","w","i","n","g"," ","k","n","i","f","e">>,
      <<"t","h","e"," ","t","h","r","o","w","n"," ","b","l","a","d","e">>>>,
    <<<<"t","h","r","o","w","i","n","g"," ","k","n","i","f","e">>,
      <<"t","h","r","o","w","n"," ","b","l","a","d","e">>>>,
    <<<<"t","h","e"," ","s","h","u","r","i","k","e","n">>,
      <<"t","h","e"," ","t","h","r","o","w","n"," ","b","l","a","d","e">>>>,
    <<<<"s","h","u","r","i","k","e","n">>,
      <<"t","h","r","o","w","n"," ","b","l","a","d","e">>>>,
    <<<<"t","h","e"," ","c","h","a","k","r","a","m">>,
      <<"t","h","e"," ","t","h","r","o","w","n"," ","d","i","s","c">>>>,
    <<<<"c","h","a","k","r","a","m">>,
      <<"t","h","r","o","w","n"," ","d","i","s","c">>>>,
    <<<<"t","h","e"," ","d","a","r","t">>,
      <<"t","h","e"," ","p","r","o","j","e","c","t","i","l","e">>>>,
    <<<<"d","a","r","t">>,
      <<"p","r","o","j","e","c","t","i","l","e">>>>,
    <<<<"t","h","e"," ","t","h","r","o","w","i","n","g"," ","a","x","e">>,
      <<"t","h","e"," ","t","h","r","o","w","n"," ","w","e","a","p","o","n">>>>,
    <<<<"t","h","r","o","w","i","n","g"," ","a","x","e">>,
      <<"t","h","r","o","w","n"," ","w","e","a","p","o","n">>>>,
    <<<<"t","h","e"," ","h","a","t","c","h","e","t">>,
      <<"t","h","e"," ","t","h","r","o","w","n"," ","a","x","e">>>>,
    <<<<"h","a","t","c","h","e","t">>,
      <<"t","h","r","o","w","n"," ","a","x","e">>>>,
    <<<<"t","h","e"," ","t","r","i","d","e","n","t">>,
      <<"t","h","e"," ","t","h","r","o","w","n"," ","s","p","e","a","r">>>>,
    <<<<"t","r","i","d","e","n","t">>,
      <<"t","h","r","o","w","n"," ","s","p","e","a","r">>>>
    >>

\* FIREARM_REPLACEMENTS: of each rule (r'\b...\b', replacement) the text between
\* the two \b and the replacement
FIREARM_REPLACEMENTS == <<
    <<<<"t","h","e"," ","p","i","s","t","o","l">>,
      <<"t","h","e"," ","f","i","r","e","a","r","m">>>>,
    <<<<"p","i","s","t","o","l">>,
      <<"f","i","r","e","a","r","m">>>>,
    <<<<"t","h","e"," ","m","u","s","k","e","t">>,
      <<"t","h","e"," ","f","i","r","e","a","r","m">>>>,
    <<<<"m","u","s","k","e","t">>,
      <<"f","i","r","e","a","r","m">>>>,
    <<<<"t","h","e"," ","r","i","f","l","e">>,
      <<"t","h","e"," ","f","i","r","e","a","r","m">>>>,
    <<<<"r","i","f","l","e">>,
      <<"f","i","r","e","a","r","m">>>>,
    <<<<"t","h","e"," ","a","r","q","u","e","b","u","s">>,
      <<"t","h","e"," ","f","i","r","e","a","r","m">>>>,
    <<<<"a","r","q","u","e","b","u","s">>,
      <<"f","i","r","e","a","r","m">>>>,
    <<<<"t","h","e"," ","b","l","u","n","d","e","r","b","u","s","s">>,
      <<"t","h","e"," ","f","i","r","e","a","r","m">>>>,
    <<<<"b","l","u","n","d","e","r","b","u","s","s">>,
      <<"f","i","r","e","a","r","m">>>>
    >>

\* BOW_REPLACEMENTS: of each rule (r'\b...\b', replacement) the text between
\* the two \b and the replacement
BOW_REPLACEMENTS == <<
    <<<<"t","h","e"," ","l","o","n","g","b","o","w">>,
      <<"t","h","e"," ","b","o","w">>>>,
    <<<<"l","o","n","g","b","o","w">>,
      <<"b","o","w">>>>,
    <<<<"t","h","e"," ","s","h","o","r","t","b","o","w">>,
      <<"t","h","e"," ","b","o","w">>>>,
    <<<<"s","h","o","r","t","b","o","w">>,
      <<"b","o","w">>>>,
    <<<<"t","h","e"," ","c","o","m","p","o","s","i","t","e"," ","b","o","w">>,
      <<"t","h","e"," ","b","o","w">>>>,
    <<<<"c","o","m","p","o","s","i","t","e"," ","b","o","w">>,
      <<"b","o","w">>>>,
    <<<<"t","h","e"," ","r","e","c","u","r","v","e">>,
      <<"t","h","e"," ","b","o","w">>>>,
    <<<<"r","e","c","u","r","v","e">>,
      <<"b","o","w">>>>
    >>

\* CROSSBOW_REPLACEMENTS: of each rule (r'\b...\b', replacement) the text between
\* the two \b and the replacement
CROSSBOW_REPLACEMENTS == <<
    <<<<"t","h","e"," ","h","e","a","v","y"," ","c","r","o","s","s","b","o","w">>,
      <<"t","h","e"," ","c","r","o","s","s","b","o","w">>>>,
    <<<<"h","e","a","v","y"," ","c","r","o","s","s","b","o","w">>,
      <<"c","r","o","s","s","b","o","w">>>>,
    <<<<"t","h","e"," ","l","i","g","h","t"," ","c","r","o","s","s","b","o","w">>,
      <<"t","h","e"," ","c","r","o","s","s","b","o","w">>>>,
    <<<<"l","i","g","h","t"," ","c","r","o","s","s","b","o","w">>,
      <<"c","r","o","s","s","b","o","w">>>>,
    <<<<"t","h","e"," ","h","a","n","d"," ","c","r","o","s","s","b","o","w">>,
      <<"t","h","e"," ","c","r","o","s","s","b","o","w">>>>,
    <<<<"h","a","n","d"," ","c","r","o","s","s","b","o","w">>,
      <<"c","r","o","s","s","b","o","w">>>>,
    <<<<"t","h","e"," ","a","r","b","a","l","e","s","t">>,
      <<"t","h","e"," ","c","r","o","s","s","b","o","w">>>>,
    <<<<"a","r","b","a","l","e","s","t">>,
      <<"c","r","o","s","s","b","o","w">>>>
    >>

\* UNARMED_REPLACEMENTS: of each rule (r'\b...\b', replacement) the text between
\* the two \b and the replacement
UNARMED_REPLACEMENTS == <<
    <<<<"P","e","r","s","i","a","n"," ","p","r","e","c","i","s","i","o","n">>,
      <<"p","r","e","c","i","s","e"," ","t","e","c","h","n","i","q","u","e">>>>,
    <<<<"P","e","r","s","i","a","n"," ","c","a","v","a","l","r","y"," ","p","r","e","c","i","s",
      "i","o","n">>,
      <<"m","o","u","n","t","e","d"," ","p","r","e","c","i","s","i","o","n">>>>,
    <<<<"P","e","r","s","i","a","n"," ","f","i","n","a","l","i","t","y">>,
      <<"d","e","c","i","s","i","v","e"," ","f","o","r","c","e">>>>,
    <<<<"S","c","y","t","h","i","a","n"," ","s","a","v","a","g","e","r","y">>,
      <<"b","r","u","t","a","l"," ","f","o","r","c","e">>>>,
    <<<<"K","o","r","e","a","n"," ","p","e","r","f","e","c","t","i","o","n">>,
      <<"p","e","r","f","e","c","t"," ","t","e","c","h","n","i","q","u","e">>>>,
    <<<<"S","w","i","s","s"," ","p","r","e","c","i","s","i","o","n">>,
      <<"p","r","e","c","i","s","e"," ","t","e","c","h","n","i","q","u","e">>>>,
    <<<<"p","a","l","m"," ","s","t","r","i","k","e","-","e","-","z","i","n">>,
      <<"p","a","l","m"," ","s","t","r","i","k","e">>>>,
    <<<<"t","a","i","l"," ","s","t","r","i","k","e">>,
      <<"t","a","i","l"," ","a","t","t","a","c","k">>>>,
    <<<<"f","l","o","w","i","n","g"," ","s","t","r","i","k","e">>,
      <<"f","l","o","w","i","n","g"," ","a","t","t","a","c","k">>>>,
    <<<<"h","a","y","m","a","k","e","r"," ","s","t","r","i","k","e","-","f","i","s","t">>,
      <<"h","e","a","v","y"," ","s","t","r","i","k","e">>>>,
    <<<<"t","h","e"," ","s","p","l","i","t","t","i","n","g"," ","m","a","u","l">>,
      <<"t","h","e"," ","h","e","a","v","y"," ","s","t","r","i","k","e">>>>,
    <<<<"s","p","l","i","t","t","i","n","g"," ","m","a","u","l">>,
      <<"h","e","a","v","y"," ","s","t","r","i","k","e">>>>,
    <<<<"t","h","e"," ","b","i","t","e"," ","t","r","i","d","e","n","t","-","s","t","r","i","k",
      "e">>,
      <<"t","h","e"," ","t","r","i","p","l","e"," ","s","t","r","i","k","e">>>>,
    <<<<"b","i","t","e"," ","t","r","i","d","e","n","t","-","s","t","r","i","k","e">>,
      <<"t","r","i","p","l","e"," ","s","t","r","i","k","e">>>>,
    <<<<"t","h","e"," ","h","a","l","b","e","r","d">>,
      <<"t","h","e"," ","w","e","a","p","o","n">>>>,
    <<<<"h","a","l","b","e","r","d">>,
      <<"w","e","a","p","o","n">>>>,
    <<<<"t","h","e"," ","t","o","m","a","h","a","w","k">>,
      <<"t","h","e"," ","s","t","r","i","k","e">>>>,
    <<<<"t","o","m","a","h","a","w","k">>,
      <<"s","t","r","i","k","e">>>>
    >>

\* AXE_REPLACEMENTS_EXTRA
AXE_REPLACEMENTS_EXTRA == <<
    <<<<"T","h","e"," ","p","o","l","l","a","x","e"," ","h","e","a","d">>,
      <<"T","h","e"," ","a","x","e"," ","h","e","a","d">>>>,
    <<<<"t","h","e"," ","p","o","l","l","a","x","e"," ","h","e","a","d">>,
      <<"t","h","e"," ","a","x","e"," ","h","e","a","d">>>>,
    <<<<"T","h","e"," ","p","o","l","l","a","x","e">>,
      <<"T","h","e"," ","p","o","l","e","a","r","m">>>>,
    <<<<"t","h","e"," ","p","o","l","l","a","x","e">>,
      <<"t","h","e"," ","p","o","l","e","a","r","m">>>>,
    <<<<"p","o","l","l","a","x","e">>,
      <<"p","o","l","e","a","r","m">>>>,
    <<<<"t","h","e"," ","b","a","t","t","l","e"," ","a","x","e"," ","h","e","a","d">>,
      <<"t","h","e"," ","a","x","e"," ","h","e","a","d">>>>,
    <<<<"b","a","t","t","l","e"," ","a","x","e"," ","h","e","a","d">>,
      <<"a","x","e"," ","h","e","a","d">>>>,
    <<<<"p","e","r","f","e","c","t"," ","s","a","v","a","g","e"," ","t","e","c","h","n","i","q",
      "u","e">>,
      <<"p","e","r","f","e","c","t"," ","b","r","u","t","a","l"," ","t","e","c","h","n","i","q",
        "u","e">>>>,
    <<<<"s","a","v","a","g","e"," ","t","e","c","h","n","i","q","u","e">>,
      <<"b","r","u","t","a","l"," ","t","e","c","h","n","i","q","u","e">>>>
    >>

\* DAGGER_REPLACEMENTS_EXTRA
DAGGER_REPLACEMENTS_EXTRA == <<
    <<<<"p","e","r","f","e","c","t"," ","s","a","v","a","g","e"," ","t","e","c","h","n","i","q",
      "u","e">>,
      <<"p","e","r","f","e","c","t"," ","b","r","u","t","a","l"," ","t","e","c","h","n","i","q",
        "u","e">>>>,
    <<<<"s","a","v","a","g","e"," ","t","e","c","h","n","i","q","u","e">>,
      <<"b","r","u","t","a","l"," ","t","e","c","h","n","i","q","u","e">>>>
    >>

\* UNARMED_REPLACEMENTS_EXTRA
UNARMED_REPLACEMENTS_EXTRA == <<
    <<<<"p","e","r","f","e","c","t"," ","s","a","v","a","g","e"," ","t","e","c","h","n","i","q",
      "u","e">>,
      <<"p","e","r","f","e","c","t"," ","b","r","u","t","a","l"," ","t","e","c","h","n","i","q",
        "u","e">>>>,
    <<<<"s","a","v","a","g","e"," ","t","e","c","h","n","i","q","u","e">>,
      <<"b","r","u","t","a","l"," ","t","e","c","h","n","i","q","u","e">>>>
    >>

\* FILE_REPLACEMENTS as lines 455-466 define it, in the order of its keys
FileReplacementsAsDefined ==
    LET melee  == data_dir \o <<<<"m","e","l","e","e">>>>
        ranged == data_dir \o <<<<"r","a","n","g","e","d">>>>
    IN
    << [file |-> melee \o <<<<"s","w","o","r","d",".","j","s","o","n">>>>,
        replacements |-> SWORD_REPLACEMENTS],
       [file |-> melee \o <<<<"h","a","m","m","e","r",".","j","s","o","n">>>>,
        replacements |-> HAMMER_REPLACEMENTS],
       [file |-> melee \o <<<<"s","p","e","a","r",".","j","s","o","n">>>>,
        replacements |-> SPEAR_REPLACEMENTS],
       [file |-> melee \o <<<<"d","a","g","g","e","r",".","j","s","o","n">>>>,
        replacements |-> DAGGER_REPLACEMENTS],
       [file |-> melee \o <<<<"a","x","e",".","j","s","o","n">>>>,
        replacements |-> AXE_REPLACEMENTS],
       [file |-> melee \o <<<<"u","n","a","r","m","e","d",".","j","s","o","n">>>>,
        replacements |-> UNARMED_REPLACEMENTS],
       [file |-> ranged \o <<<<"t","h","r","o","w","n",".","j","s","o","n">>>>,
        replacements |-> THROWN_REPLACEMENTS],
       [file |-> ranged \o <<<<"f","i","r","e","a","r","m",".","j","s","o","n">>>>,
        replacements |-> FIREARM_REPLACEMENTS],
       [file |-> ranged \o <<<<"b","o","w",".","j","s","o","n">>>>,
        replacements |-> BOW_REPLACEMENTS],
       [file |-> ranged \o <<<<"c","r","o","s","s","b","o","w",".","j","s","o","n">>>>,
        replacements |-> CROSSBOW_REPLACEMENTS] >>

\* the lists lines 562-564 put in front of the lists of FILE_REPLACEMENTS
ExtraReplacements(file) ==
    LET melee == data_dir \o <<<<"m","e","l","e","e">>>>
    IN  IF file = melee \o <<<<"a","x","e",".","j","s","o","n">>>>
        THEN AXE_REPLACEMENTS_EXTRA
        ELSE IF file = melee \o <<<<"d","a","g","g","e","r",".","j","s","o","n">>>>
        THEN DAGGER_REPLACEMENTS_EXTRA
        ELSE IF file = melee \o <<<<"u","n","a","r","m","e","d",".","j","s","o","n">>>>
        THEN UNARMED_REPLACEMENTS_EXTRA
        ELSE <<>>

RECURSIVE sub(_, _, _)
\* re.sub(pattern, replacement, text, flags=re.IGNORECASE) from the
\* position from on, for the rule <<literal, replacement>> whose pattern is
\* \b literal \b (literal is ASCII): the leftmost match is replaced and
\* the search goes on behind it
sub(rule, text, from) ==
    LET \* the character a character of the text is matched as under
        \* IGNORECASE: a letter and its lower case match each other, i also
        \* matches U+0130 and U+0131, s U+017F and k U+212A
        folded(c)   == IF c \in Range(Uppers)
                       THEN Lowers[CHOOSE k \in 1..Len(Uppers) : Uppers[k] = c]
                       ELSE IF c \in {"\\u0130", "\\u0131"} THEN "i"
                       ELSE IF c = "\\u017f" THEN "s"
                       ELSE IF c = "\\u212a" THEN "k"
                       ELSE c
        literal     == AsSeq([k \in 1..Len(rule[1]) |-> folded(rule[1][k])])
        n           == Len(literal)
        \* the characters \w matches: letters, digits and the underscore
        WordChars   == Range(Uppers) \cup Range(Lowers) \cup {"_"}
                           \cup {"0","1","2","3","4","5","6","7","8","9"}
                           \cup {"\\xc9", "\\xe9", "\\u0391", "\\u03b1", "\\u03a3",
                                 "\\u03c3", "\\u03c2", "\\u0130", "\\u0131", "\\u017f",
                                 "\\u212a", "\\u210b"}
        word(k)     == k >= 1 /\ k <= Len(text) /\ text[k] \in WordChars
        boundary(k) == word(k - 1) # word(k)
        found       == {k \in from..(Len(text) - n + 1) :
                           /\ \A d \in 1..n : folded(text[k + d - 1]) = literal[d]
                           /\ boundary(k)
                           /\ boundary(k + n)}
    IN  IF found = {} THEN SubSeq(text, from, Len(text))
        ELSE LET k == SetMin(found)
             IN  SubSeq(text, from, k - 1) \o rule[2] \o sub(rule, text, k + n)

RECURSIVE apply_replacements(_, _)
\* for pattern, replacement in replacements: text = re.sub(...); the rules
\* of the first half of the list, then those of the second half
apply_replacements(text, replacements) ==
    IF replacements = <<>> THEN text
    ELSE IF Len(replacements) = 1 THEN sub(replacements[1], text, 1)
    ELSE LET half == Len(replacements) \div 2
             then == {apply_replacements(first, SubSeq(replacements, half + 1,
                                                       Len(replacements))) :
                         first \in {apply_replacements(text, SubSeq(replacements, 1, half))}}
         IN  CHOOSE result \in then : TRUE

RECURSIVE process_value_counting_all(_, _)
process_value_counting_all(value, replacements) ==
    IF value.type = "str"
    THEN [value |-> Json("str", apply_replacements(value.val, replacements)), changes |-> 1]
    ELSE IF value.type = "list"
    THEN LET items == AsSeq([k \in 1..Len(value.val) |->
                                process_value_counting_all(value.val[k], replacements)])
         IN  [value   |-> Json("list", AsSeq([k \in 1..Len(items) |-> items[k].value])),
              changes |-> Sum(AsSeq([k \in 1..Len(items) |-> items[k].changes]))]
    ELSE IF value.type = "dict"
    THEN LET items == AsSeq([k \in 1..Len(value.val) |->
                                process_value_counting_all(value.val[k][2], replacements)])
         IN  [value   |-> Json("dict", AsSeq([k \in 1..Len(items) |->
                                         <<value.val[k][1], items[k].value>>])),
              changes |-> Sum(AsSeq([k \in 1..Len(items) |-> items[k].changes]))]
    ELSE [value |-> value, changes |-> 0]

RECURSIVE process_value(_, _)
\* fix_weapon_file.process_value: the value returned and what the walk adds
\* to the counter changes
process_value(value, replacements) ==
    IF value.type = "str"
    THEN LET new_value == apply_replacements(value.val, replacements)
         IN  [value |-> Json("str", new_value), changes |-> IF new_value # value.val THEN 1 ELSE 0]
    ELSE IF value.type = "list"
    THEN LET items == AsSeq([k \in 1..Len(value.val) |->
                                process_value(value.val[k], replacements)])
         IN  [value   |-> Json("list", AsSeq([k \in 1..Len(items) |-> items[k].value])),
              changes |-> Sum(AsSeq([k \in 1..Len(items) |-> items[k].changes]))]
    ELSE IF value.type = "dict"
    THEN LET items == AsSeq([k \in 1..Len(value.val) |->
                                process_value(value.val[k][2], replacements)])
         IN  [value   |-> Json("dict", AsSeq([k \in 1..Len(items) |->
                                         <<value.val[k][1], items[k].value>>])),
              changes |-> Sum(AsSeq([k \in 1..Len(items) |-> items[k].changes]))]
    ELSE [value |-> value, changes |-> 0]

\* fix_weapon_file(filepath, replacements) on the content data of the
\* file: what is written back and the number returned (a file that does
\* not exist is skipped)
fix_weapon_file(data, replacements) ==
    IF data = Missing THEN [value |-> Missing, changes |-> 0]
    ELSE process_value(data, replacements)

\* main(): fix_weapon_file for every item of FILE_REPLACEMENTS
main(next) ==
    /\ \E fixed \in {AsSeq([k \in 1..Len(FILE_REPLACEMENTS) |->
                               fix_weapon_file(json_files[FILE_REPLACEMENTS[k].file],
                                               FILE_REPLACEMENTS[k].replacements)])} :
          /\ json_files' =
                 [file \in DOMAIN json_files |->
                     LET at == {k \in 1..Len(fixed) : FILE_REPLACEMENTS[k].file = file}
                     IN  IF at = {} THEN json_files[file] ELSE fixed[CHOOSE k \in at : TRUE].value]
          /\ changes' = AsSeq([k \in 1..Len(fixed) |->
                                  [file |-> FILE_REPLACEMENTS[k].file,
                                   changes |-> fixed[k].changes]])
          /\ total_changes' = Sum(AsSeq([k \in 1..Len(fixed) |-> fixed[k].changes]))
    /\ pc' = next
    /\ UNCHANGED <<corpus, raised, analyzer, scan, report, run, previous, ratio_call,
                   normalize_call, module_name, FILE_REPLACEMENTS, changes_made>>

\* if __name__ == '__main__': main(), in the script
RunAsScript ==
    /\ pc = "weapon_guard"
    /\ module_name = "__main__"
    /\ main("weapon_extras")

\* if __name__ == '__main__', in the imported module
SkipMain ==
    /\ pc = "weapon_guard"
    /\ module_name # "__main__"
    /\ pc' = "weapon_extras"
    /\ UNCHANGED <<corpus, raised, analyzer, scan, report, run, previous, calls>>

\* lines 535-564: FILE_REPLACEMENTS[file] = ..._EXTRA + FILE_REPLACEMENTS[file]
InsertExtras ==
    /\ pc = "weapon_extras"
    /\ FILE_REPLACEMENTS' =
           AsSeq([k \in 1..Len(FILE_REPLACEMENTS) |->
                     [file         |-> FILE_REPLACEMENTS[k].file,
                      replacements |-> ExtraReplacements(FILE_REPLACEMENTS[k].file)
                                           \o FILE_REPLACEMENTS[k].replacements]])
    /\ pc' = "weapon_end"
    /\ UNCHANGED <<corpus, raised, analyzer, scan, report, run, previous, ratio_call,
                   normalize_call, module_name, json_files, changes, total_changes,
                   changes_made>>

\* the importing code calls main()
CallMain ==
    /\ pc = "weapon_end"
    /\ module_name # "__main__"
    /\ main("weapon_called")

\* the importing code calls fix_weapon_file(filepath, replacements) with a
\* path and the list the module holds for a file of that name; changes
\* holds the call: its arguments and the number it returns
call_fix_weapon_file ==
    /\ pc = "weapon_end"
    /\ module_name # "__main__"
    /\ \E filepath \in DOMAIN json_files, k \in 1..Len(FILE_REPLACEMENTS) :
          /\ filepath[Len(filepath)] = FILE_REPLACEMENTS[k].file[Len(FILE_REPLACEMENTS[k].file)]
          /\ \E fixed \in {fix_weapon_file(json_files[filepath],
                                           FILE_REPLACEMENTS[k].replacements)} :
                /\ json_files' = [json_files EXCEPT ![filepath] = fixed.value]
                /\ changes' = <<[file         |-> filepath,
                                 replacements |-> FILE_REPLACEMENTS[k].replacements,
                                 changes      |-> fixed.changes]>>
    /\ pc' = "weapon_file_fixed"
    /\ UNCHANGED <<corpus, raised, analyzer, scan, report, run, previous, ratio_call,
                   normalize_call, module_name, FILE_REPLACEMENTS, total_changes,
                   changes_made>>

(***************************************************************************)
(* fix_grammar.py                                                          *)
(***************************************************************************)
capitalize_sentence_start(text) ==
    IF Len(text) >= 2 /\ text[1] = "$" /\ text[2] = "{" THEN text
    \* str.isupper() of the first character: the letters lower() changes and
    \* U+210B
    ELSE IF text # <<>> /\ text[1] \in DOMAIN LowerOf \cup {"\\u210b"} THEN text
    ELSE IF text # <<>>
         THEN LET \* str.upper() of the first character
                  upper == IF text[1] \in Range(Lowers)
                           THEN Uppers[CHOOSE k \in 1..Len(Lowers) : Lowers[k] = text[1]]
                           ELSE IF text[1] = "\\xe9" THEN "\\xc9"
                           ELSE IF text[1] = "\\u03b1" THEN "\\u0391"
                           ELSE IF text[1] \in {"\\u03c3", "\\u03c2"} THEN "\\u03a3"
                           ELSE IF text[1] = "\\u0131" THEN "I"
                           ELSE IF text[1] = "\\u017f" THEN "S"
                           ELSE text[1]
              IN  <<upper>> \o Tail(text)
         ELSE text

RECURSIVE process_value_grammar(_)
\* fix_grammar_in_file.process_value
process_value_grammar(value) ==
    IF value.type = "str"
    THEN LET new_value == capitalize_sentence_start(value.val)
         IN  IF new_value # value.val THEN [value |-> Json("str", new_value), changes |-> 1]
             ELSE [value |-> value, changes |-> 0]
    ELSE IF value.type = "list"
    THEN LET items == AsSeq([k \in 1..Len(value.val) |-> process_value_grammar(value.val[k])])
         IN  [value   |-> Json("list", AsSeq([k \in 1..Len(items) |-> items[k].value])),
              changes |-> Sum(AsSeq([k \in 1..Len(items) |-> items[k].changes]))]
    ELSE IF value.type = "dict"
    THEN LET items == AsSeq([k \in 1..Len(value.val) |->
                                process_value_grammar(value.val[k][2])])
         IN  [value   |-> Json("dict", AsSeq([k \in 1..Len(items) |->
                                         <<value.val[k][1], items[k].value>>])),
              changes |-> Sum(AsSeq([k \in 1..Len(items) |-> items[k].changes]))]
    ELSE [value |-> value, changes |-> 0]

\* fix_grammar_in_file(filepath) on the content data of the file: what is
\* written back and the number returned (a file that does not exist is
\* skipped)
fix_grammar_in_file(data) ==
    IF data = Missing THEN [value |-> Missing, changes |-> 0]
    ELSE process_value_grammar(data)

\* data_dir.rglob('*.json'): the files below data/combat/openings, at any
\* depth, whose name ends in .json
rglob(files) ==
    {path \in DOMAIN files :
        /\ files[path] # Missing
        /\ Len(path) > Len(data_dir)
        /\ SubSeq(path, 1, Len(data_dir)) = data_dir
        /\ LET name == path[Len(path)]
           IN  /\ Len(name) >= 5
               /\ SubSeq(name, Len(name) - 4, Len(name)) = <<".","j","s","o","n">>}

\* fix_grammar.main(): fix_grammar_in_file for every file found, in the
\* order of sorted(json_files)
fix_grammar ==
    /\ pc = "grammar"
    /\ \E found \in {SortedPaths(rglob(json_files))} :
           \E fixed \in {AsSeq([k \in 1..Len(found) |->
                                   fix_grammar_in_file(json_files[found[k]])])} :
              /\ json_files' =
                     [file \in DOMAIN json_files |->
                         LET at == {k \in 1..Len(found) : found[k] = file}
                         IN  IF at = {} THEN json_files[file]
                             ELSE fixed[CHOOSE k \in at : TRUE].value]
              /\ changes' = AsSeq([k \in 1..Len(found) |->
                                      [file |-> found[k], changes |-> fixed[k].changes]])
              /\ total_changes' = Sum(AsSeq([k \in 1..Len(fixed) |-> fixed[k].changes]))
    /\ pc' = "grammar_done"
    /\ UNCHANGED <<corpus, raised, analyzer, scan, report, run, previous, ratio_call,
                   normalize_call, module_name, FILE_REPLACEMENTS, changes_made>>

\* the importing code calls fix_grammar_in_file(filepath); changes holds
\* what the call returns
call_fix_grammar_in_file ==
    /\ pc = "grammar"
    /\ module_name # "__main__"
    /\ \E filepath \in DOMAIN json_files :
          \E fixed \in {fix_grammar_in_file(json_files[filepath])} :
             /\ json_files' = [json_files EXCEPT ![filepath] = fixed.value]
             /\ changes' = <<[file |-> filepath, changes |-> fixed.changes]>>
    /\ pc' = "grammar_file_fixed"
    /\ UNCHANGED <<corpus, raised, analyzer, scan, report, run, previous, ratio_call,
                   normalize_call, module_name, FILE_REPLACEMENTS, total_changes,
                   changes_made>>

(***************************************************************************)
(* fix-anatomy-override-keys.py                                            *)
(***************************************************************************)
\* '/home/user/PF2e-Narrative-Seeds/data/combat/effects/anatomy-overrides.json'
file_path ==
    << <<"/">>,
       <<"h","o","m","e">>,
       <<"u","s","e","r">>,
       <<"P","F","2","e","-","N","a","r","r","a","t","i","v","e","-","S","e","e","d","s">>,
       <<"d","a","t","a">>,
       <<"c","o","m","b","a","t">>,
       <<"e","f","f","e","c","t","s">>,
       <<"a","n","a","t","o","m","y","-","o","v","e","r","r","i","d","e","s",".","j","s","o","n">> >>

KEY_MAPPINGS ==
    LET aberration == <<"a","b","e","r","r","a","t","i","o","n">>
        beast      == <<"b","e","a","s","t">>
        fey        == <<"f","e","y">>
        ooze       == <<"o","o","z","e">>
    IN  [old_key \in {aberration, beast, fey, ooze} |->
            IF old_key = aberration
            THEN <<"a","b","e","r","r","a","t","i","o","n","-","g","e","n","e","r","a","l">>
            ELSE IF old_key = beast THEN <<"q","u","a","d","r","u","p","e","d">>
            ELSE IF old_key = fey THEN <<"f","e","y","-","g","e","n","e","r","a","l">>
            ELSE <<"a","m","o","r","p","h","o","u","s">>]

RECURSIVE Renamed(_, _, _)
\* the loop of lines 30-38 over the rest of data.items()
Renamed(items, new_data, changes_made_so_far) ==
    IF items = <<>> THEN [new_data |-> new_data, changes_made |-> changes_made_so_far]
    ELSE LET old_key == Head(items)[1]
             value   == Head(items)[2]
             \* new_data[key] = value, new_data kept as its items in insertion order
             Assigned(data, key, v) ==
                 IF \E k \in 1..Len(data) : data[k][1] = key
                 THEN AsSeq([k \in 1..Len(data) |->
                                IF data[k][1] = key THEN <<key, v>> ELSE data[k]])
                 ELSE Append(data, <<key, v>>)
         IN  IF old_key \in DOMAIN KEY_MAPPINGS
             THEN Renamed(Tail(items), Assigned(new_data, KEY_MAPPINGS[old_key], value),
                          Append(changes_made_so_far, <<old_key, KEY_MAPPINGS[old_key]>>))
             ELSE Renamed(Tail(items), Assigned(new_data, old_key, value),
                          changes_made_so_far)

\* dict(sorted(new_data.items())): the items in the order of their keys
SortedByKey(items) ==
    CHOOSE sorted \in
        {AsSeq([p \in 1..Len(items) |-> items[CHOOSE k \in 1..Len(items) : rank[k] = p]]) :
            rank \in {[k \in 1..Len(items) |->
                          1 + Cardinality({j \in 1..Len(items) :
                                              LessText(items[j][1], items[k][1])})]}} :
        TRUE

\* the script, from open to json.dump: open raises FileNotFoundError when
\* the file does not exist, data.items() AttributeError when the file holds
\* no object, and nothing is written then
fix_anatomy_override_keys ==
    /\ pc = "anatomy"
    /\ IF json_files[file_path] = Missing
       THEN /\ raised' = "FileNotFoundError"
            /\ pc' = "aborted"
            /\ UNCHANGED <<json_files, changes_made>>
       ELSE IF json_files[file_path].type # "dict"
       THEN /\ raised' = "AttributeError"
            /\ pc' = "aborted"
            /\ UNCHANGED <<json_files, changes_made>>
       ELSE /\ \E done \in {Renamed(json_files[file_path].val, <<>>, <<>>)} :
                  /\ json_files' = [json_files EXCEPT
                                        ![file_path] = Json("dict", SortedByKey(done.new_data))]
                  /\ changes_made' = done.changes_made
            /\ pc' = "anatomy_done"
            /\ UNCHANGED raised
    /\ UNCHANGED <<corpus, analyzer, scan, report, run, previous, ratio_call,
                   normalize_call, module_name, FILE_REPLACEMENTS, changes, total_changes>>

(***************************************************************************)
(* The scripts run on small files.                                         *)
(***************************************************************************)
\* the contents of the opening files
Trees ==
    LET Str(chars) == Json("str", chars)
        \* the strings of the files
        Texts ==
            [
             \* "the halberd"
             halberd |-> <<"t","h","e"," ","h","a","l","b","e","r","d">>,
             \* "The Halberd swings"
             capital |-> <<"T","h","e"," ","H","a","l","b","e","r","d"," ","s","w","i","n","g","s">>,
             \* "halberds fall"
             plural |-> <<"h","a","l","b","e","r","d","s"," ","f","a","l","l">>,
             \* "a savage technique"
             savage |-> <<"a"," ","s","a","v","a","g","e"," ","t","e","c","h","n","i","q","u","e">>,
             \* "the pollaxe head"
             pollaxe |-> <<"t","h","e"," ","p","o","l","l","a","x","e"," ","h","e","a","d">>,
             \* "${name} halberd"
             template |-> <<"$","{","n","a","m","e","}"," ","h","a","l","b","e","r","d">>
            ]
        success == <<"s","u","c","c","e","s","s">>
        failure == <<"f","a","i","l","u","r","e">>
        count   == <<"c","o","u","n","t">>
        halberd == <<"h","a","l","b","e","r","d">>
    IN
    << \* {"success": ["the halberd", "a savage technique"], "count": 7}
       Json("dict", << <<success, Json("list", <<Str(Texts.halberd), Str(Texts.savage)>>)>>,
                       <<count, Json("number", <<"7">>)>> >>),
       \* {"failure": {"halberd": "the pollaxe head"}, "success": ["The Halberd swings"]}
       Json("dict", << <<failure, Json("dict", << <<halberd, Str(Texts.pollaxe)>> >>)>>,
                       <<success, Json("list", <<Str(Texts.capital)>>)>> >>),
       \* ["${name} halberd", "halberds fall", [], null]
       Json("list", <<Str(Texts.template), Str(Texts.plural), Json("list", <<>>),
                      Json("null", <<>>)>>),
       \* "a savage technique"
       Str(Texts.savage) >>

\* the paths of the files the scripts may find: the files of
\* FILE_REPLACEMENTS, data/combat/openings/axe.json,
\* data/combat/openings/melee-old/axe.json,
\* data/combat/openings/melee/notes.txt and the anatomy file
Paths ==
    {FileReplacementsAsDefined[k].file : k \in 1..Len(FileReplacementsAsDefined)}
        \cup {data_dir \o <<<<"a","x","e",".","j","s","o","n">>>>,
              data_dir \o <<<<"m","e","l","e","e","-","o","l","d">>, <<"a","x","e",".","j","s","o","n">>>>,
              data_dir \o <<<<"m","e","l","e","e">>, <<"n","o","t","e","s",".","t","x","t">>>>,
              file_path}

InitFix ==
    LET \* the keys of the anatomy files
        AnatomyKeys == {<<"a","b","e","r","r","a","t","i","o","n">>,
                        <<"a","b","e","r","r","a","t","i","o","n","-","g","e","n","e","r","a","l">>,
                        <<"b","e","a","s","t">>,
                        <<"q","u","a","d","r","u","p","e","d">>,
                        <<"h","u","m","a","n","o","i","d">>,
                        <<"o","o","z","e">>,
                        <<"B","e","a","s","t">>}
        \* the values of the anatomy files, by position
        Values      == <<"1", "2", "3", "4", "5">>
        \* the disks on which at most MaxFiles of the files other than the
        \* anatomy file exist, all holding the same one of the trees
        Openings    ==
            {[file \in present |-> tree] :
                present \in {S \in SUBSET (Paths \ {file_path}) : Cardinality(S) <= MaxFiles},
                tree \in 1..Len(Trees)}
    IN
    /\ disk = <<>>
    /\ unreadable = {}
    /\ glob_order = <<>>
    /\ raised = "none"
    /\ Constructed
    /\ unique_phrases = <<>>
    /\ threshold = DefaultThreshold
    /\ anchor = 0
    /\ total_comparisons = 0
    /\ comparisons = <<>>
    /\ report = NoReport
    /\ run = 1
    /\ previous = NoPrevious
    /\ ratio_call = NoCall
    /\ normalize_call = NoNormalizeCall
    /\ changes = <<>>
    /\ total_changes = 0
    /\ changes_made = <<>>
    /\ \/ /\ pc = "weapon_guard"
          /\ module_name \in {"__main__", "fix_weapon_references"}
          /\ FILE_REPLACEMENTS = FileReplacementsAsDefined
          /\ \E content \in Openings :
                json_files = [file \in Paths |->
                                 IF file \in DOMAIN content THEN Trees[content[file]]
                                 ELSE Missing]
       \/ /\ pc = "grammar"
          /\ module_name \in {"__main__", "fix_grammar"}
          /\ FILE_REPLACEMENTS = <<>>
          /\ \E content \in Openings :
                json_files = [file \in Paths |->
                                 IF file \in DOMAIN content THEN Trees[content[file]]
                                 ELSE Missing]
       \/ /\ pc = "anatomy"
          /\ module_name = "__main__"
          /\ FILE_REPLACEMENTS = <<>>
          /\ \/ json_files = [file \in Paths |-> Missing]
             \/ \E keys \in SeqsUpTo(AnatomyKeys, MaxKeys) :
                   /\ \A k, m \in 1..Len(keys) : keys[k] = keys[m] => k = m
                   /\ json_files =
                          [file \in Paths |->
                              IF file = file_path
                              THEN Json("dict", AsSeq([k \in 1..Len(keys) |->
                                                  <<keys[k], Json("number", <<Values[k]>>)>>]))
                              ELSE Missing]

NextFix ==
    \/ RunAsScript
    \/ SkipMain
    \/ InsertExtras
    \/ CallMain
    \/ call_fix_weapon_file
    \/ fix_grammar
    \/ call_fix_grammar_in_file
    \/ fix_anatomy_override_keys

SpecFix == InitFix /\ [][NextFix]_vars

(***************************************************************************)
(* Properties.                                                             *)
(***************************************************************************)
\* the entries of the disk holding the literal phrase, in the order the
\* loaders go through the files and their lists
OccurrencesOnDisk(phrase) ==
    LET lists == SlotsIn({Files[k].dir : k \in 1..Len(Files)})
    IN  SelectSeq(Flatten(AsSeq([p \in 1..Len(lists) |-> EntriesOf(lists[p])])),
                  LAMBDA e : e.phrase = phrase)

\* the location records of the occurrences of the phrase, in load order
LocationsOnDisk(phrase) ==
    LET occ == OccurrencesOnDisk(phrase)
    IN  AsSeq([k \in 1..Len(occ) |-> Location(occ[k])])

\* the source identifiers the occurrences of the phrase carry
SourcesOnDisk(phrase) == FileSet(LocationsOnDisk(phrase))

\* the two phrases a near-duplicate record joins
PairOf(r) == {r.phrase1, r.phrase2}

OrderedPairs(near) == {<<near[k].phrase1, near[k].phrase2>> : k \in 1..Len(near)}

ExactDone == pc \in {"find_near", "scan", "report", "done"}

ScanDone == pc \in {"report", "done"}

\* C1: no two records of near_duplicates cover the same unordered pair of
\* phrases, neither as (P,Q) twice nor as (P,Q) and (Q,P).
C1_PairAtMostOnce ==
    \A m, n \in 1..Len(near_duplicates) :
        m # n => PairOf(near_duplicates[m]) # PairOf(near_duplicates[n])

\* C2: once find_exact_duplicates has run, a phrase has a group if and only
\* if its occurrences carry at least 2 distinct source identifiers; it then
\* has exactly one group, whose count is the number of its occurrences and
\* whose file list holds each of its sources exactly once.
C2_ExactDuplicateGroups ==
    ExactDone =>
        /\ \A k \in 1..Len(duplicates) :
              LET g == duplicates[k]
              IN  /\ Cardinality(SourcesOnDisk(g.phrase)) >= 2
                  /\ g.count = Len(OccurrencesOnDisk(g.phrase))
                  /\ Range(g.files) = SourcesOnDisk(g.phrase)
                  /\ Len(g.files) = Cardinality(SourcesOnDisk(g.phrase))
                  /\ \A n \in 1..Len(duplicates) : duplicates[n].phrase = g.phrase => n = k
        /\ \A phrase \in PhrasePool :
              Cardinality(SourcesOnDisk(phrase)) >= 2
                  => \E k \in 1..Len(duplicates) : duplicates[k].phrase = phrase

\* C2 witness: a group of 3 occurrences in 2 sources has been recorded (a
\* repeat within one source is counted).
C2_Witness ==
    /\ pc = "done"
    /\ \E k \in 1..Len(duplicates) :
          duplicates[k].count = 3 /\ Len(duplicates[k].files) = 2

\* C3: no record of near_duplicates joins two phrases whose normalized
\* forms are equal.
C3_NormalizedEqualNeverPaired ==
    \A k \in 1..Len(near_duplicates) :
        normalize_phrase(near_duplicates[k].phrase1)
            # normalize_phrase(near_duplicates[k].phrase2)

\* C3 witness: the scan has met two distinct literal phrases with equal
\* normalized forms.
C3_Witness ==
    /\ ScanDone
    /\ \E k \in 1..Len(comparisons) :
          /\ comparisons[k].outcome = "normalized_equal"
          /\ comparisons[k].phrase1 # comparisons[k].phrase2

\* C4: every record of near_duplicates joins two distinct literal phrases
\* of the corpus, carries the ratio of their normalized forms, which is at
\* least the threshold, and carries the occurrence lists of those two
\* phrases.
C4_RecordWellFormed ==
    \A k \in 1..Len(near_duplicates) :
        LET r == near_duplicates[k]
        IN  /\ r.phrase1 # r.phrase2
            /\ OccurrencesOnDisk(r.phrase1) # <<>>
            /\ OccurrencesOnDisk(r.phrase2) # <<>>
            /\ r.similarity = similarity_ratio(normalize_phrase(r.phrase1),
                                               normalize_phrase(r.phrase2))
            /\ 100 * r.similarity[1] >= threshold * r.similarity[2]
            /\ r.locations1 = LocationsOnDisk(r.phrase1)
            /\ r.locations2 = LocationsOnDisk(r.phrase2)

\* C4 witness: a record has been appended for two phrases whose occurrence
\* lists differ.
C4_Witness ==
    \E k \in 1..Len(near_duplicates) :
        near_duplicates[k].locations1 # near_duplicates[k].locations2

\* C5: every phrase2 the scan draws for an anchor phrase1 lies in a bucket
\* within BucketRadius of the anchor's bucket; a 50-character and a
\* 10-character phrase are never drawn against each other.
C5_BucketCorrectness ==
    \A k \in 1..Len(comparisons) :
        LET c == comparisons[k]
        IN  /\ LengthBucket(c.phrase2) >= LengthBucket(c.phrase1) - BucketRadius
            /\ LengthBucket(c.phrase2) <= LengthBucket(c.phrase1) + BucketRadius
            /\ {Len(c.phrase1), Len(c.phrase2)} # {10, 50}

\* C5 witness: a corpus with a 50-character and a 10-character phrase has
\* been scanned to the end.
C5_Witness ==
    /\ ScanDone
    /\ \E m, n \in 1..Len(unique_phrases) :
          Len(unique_phrases[m]) = 50 /\ Len(unique_phrases[n]) = 10
    /\ \E k \in 1..Len(comparisons) : comparisons[k].outcome = "emitted"

\* C6: a drawn pair whose relative length difference exceeds 0.2 ends at
\* the length filter and is never emitted; a pair of distinct phrases whose
\* relative difference is at most 0.2 (exactly 0.2 included) passes it.
C6_LengthFilter ==
    /\ \A k \in 1..Len(comparisons) :
          LET c == comparisons[k]
              d == Abs(Len(c.phrase1) - Len(c.phrase2))
              m == Max2(Len(c.phrase1), Len(c.phrase2))
          IN  /\ 5 * d > m => c.outcome = "length"
              /\ (c.phrase1 # c.phrase2 /\ 5 * d <= m) => c.outcome # "length"
    /\ \A k \in 1..Len(near_duplicates) :
          LET r == near_duplicates[k]
          IN  5 * Abs(Len(r.phrase1) - Len(r.phrase2))
                  <= Max2(Len(r.phrase1), Len(r.phrase2))

\* C6 witness: the scan has emitted a pair whose relative length
\* difference is exactly 0.2 and has skipped one that exceeds it.
C6_Witness ==
    /\ \E k \in 1..Len(comparisons) :
          LET c == comparisons[k]
          IN  /\ 5 * Abs(Len(c.phrase1) - Len(c.phrase2))
                     = Max2(Len(c.phrase1), Len(c.phrase2))
              /\ c.outcome = "emitted"
    /\ \E k \in 1..Len(comparisons) : comparisons[k].outcome = "length"

\* C7: a second run over the same disk with the same threshold ends with
\* the same exact-duplicate groups (file lists in the same order) and the
\* same near-duplicate records in the same order as the first.
C7_Deterministic ==
    (run = 2 /\ pc = "done" /\ threshold = previous.threshold) =>
        /\ duplicates = previous.duplicates
        /\ near_duplicates = previous.near_duplicates

\* C8: when the second run's threshold is at least the first run's, every
\* pair the second run records was recorded by the first, and the second
\* run records no more records than the first.
C8_ThresholdMonotone ==
    (run = 2 /\ previous.threshold <= threshold) =>
        /\ OrderedPairs(near_duplicates) \subseteq OrderedPairs(previous.near_duplicates)
        /\ Len(near_duplicates) <= Len(previous.near_duplicates)

\* C8 witness: a second run with a higher threshold has ended with fewer
\* records than the first, and with at least one.
C8_Witness ==
    /\ run = 2
    /\ pc = "done"
    /\ previous.threshold < threshold
    /\ near_duplicates # <<>>
    /\ Len(near_duplicates) < Len(previous.near_duplicates)

\* C9: similarity_ratio(P, Q) = similarity_ratio(Q, P).
C9_RatioSymmetric ==
    pc = "ratio_done" =>
        ratio_call.ratio = similarity_ratio(ratio_call.str2, ratio_call.str1)

\* C10: with a threshold outside [0, 1] no anchor is scanned, no comparison
\* is made and no pair is emitted.
C10_FailFast ==
    threshold \notin 0..100 =>
        /\ anchor = 0
        /\ comparisons = <<>>
        /\ near_duplicates = <<>>

\* the entries of the disk that are not a string under an outcome label
MalformedOnDisk == {k \in 1..Len(disk) : ~WellFormed(disk[k])}

\* C11: a malformed entry (a phrase that is not a string, an entry under no
\* outcome label) never ends the run with an exception and never gets into
\* all_phrases or phrase_locations.
C11_MalformedEntrySkipped ==
    MalformedOnDisk # {} =>
        /\ ~(pc = "aborted" /\ raised \in {"TypeError", "AttributeError"})
        /\ \A k \in 1..Len(all_phrases) : IsString(all_phrases[k])
        /\ \A key \in Keys(phrase_locations) : IsString(key)

\* C12: a file that fails to open or parse never ends the run: the run is
\* not aborted by the exception of that file.
C12_UnreadableFileSkipped ==
    unreadable # {} => ~(pc = "aborted" /\ raised \in {u_file.error : u_file \in unreadable})

\* C13: a run over an empty corpus ends normally with empty results and a
\* report whose counts are all 0 and whose reduction estimate is 0, not a
\* division by zero.
C13_EmptyCorpus ==
    disk = <<>> =>
        /\ pc # "aborted"
        /\ raised = "none"
        /\ duplicates = <<>>
        /\ near_duplicates = <<>>
        /\ total_comparisons = 0
        /\ pc = "done" =>
              /\ report.written
              /\ report.listed_duplicates = <<>>
              /\ report.listed_near = <<>>
              /\ report.statistics = [unique_phrases   |-> 0,
                                      phrase_instances |-> 0,
                                      exact_duplicates |-> 0,
                                      near_duplicates  |-> 0,
                                      total_potential  |-> 0,
                                      reduction_pct    |-> <<0, 1>>]

\* C13 witness: the report of a run over an empty corpus has been written.
C13_Witness == disk = <<>> /\ pc = "done" /\ report.written

\* the distinct unordered pairs of phrases the records of near cover
UnorderedPairs(near) == {PairOf(near[k]) : k \in 1..Len(near)}

\* C14: in the statistics of the report the near-duplicate count is the
\* number of distinct unordered near-duplicate pairs, the potential
\* reduction is the sum over the groups of (count - 1) plus that number,
\* and the reduction estimate times the number of occurrences is 100 times
\* the potential reduction.
C14_StatisticsIdentities ==
    pc = "done" =>
        LET duplicate_instances == SumCounts(duplicates)
            pair_count          == Cardinality(UnorderedPairs(near_duplicates))
            stats               == report.statistics
        IN  /\ stats.near_duplicates = pair_count
            /\ stats.total_potential = duplicate_instances + pair_count
            /\ Len(all_phrases) > 0 =>
                  stats.reduction_pct[1] * Len(all_phrases)
                      = (duplicate_instances + pair_count) * 100 * stats.reduction_pct[2]

\* the position at which the scan emitted the record
EmittedAt(record) == CHOOSE k \in 1..Len(near_duplicates) : near_duplicates[k] = record

\* C15: the report lists the emitted pairs by descending similarity, and
\* two pairs of equal similarity in the order in which the scan emitted
\* them.
C15_NearListingOrder ==
    pc = "done" =>
        LET listed == report.listed_near
        IN  /\ \A m \in 1..Len(listed) :
                  \E k \in 1..Len(near_duplicates) : near_duplicates[k] = listed[m]
            /\ \A m, n \in 1..Len(listed) :
                  m < n =>
                      /\ ~GreaterScore(listed[n].similarity, listed[m].similarity)
                      /\ listed[m].similarity = listed[n].similarity
                             => EmittedAt(listed[m]) < EmittedAt(listed[n])

\* C15 witness: a report lists pairs of equal and of different similarity
\* in another order than the scan emitted them.
C15_Witness ==
    /\ pc = "done"
    /\ report.listed_near # near_duplicates
    /\ \E m, n \in 1..Len(report.listed_near) :
          /\ m < n
          /\ report.listed_near[m].similarity = report.listed_near[n].similarity
    /\ \E m, n \in 1..Len(report.listed_near) :
          report.listed_near[m].similarity # report.listed_near[n].similarity

\* C16: the report lists the exact-duplicate groups found, and no listed
\* group has a larger count than a group listed before it.
C16_DuplicateListingOrder ==
    pc = "done" =>
        LET listed == report.listed_duplicates
        IN  /\ \A m \in 1..Len(listed) :
                  \E k \in 1..Len(duplicates) : duplicates[k] = listed[m]
            /\ \A m, n \in 1..Len(listed) :
                  m < n => listed[m].count >= listed[n].count

\* C16 witness: a report lists two groups of different counts in another
\* order than find_exact_duplicates recorded them.
C16_Witness ==
    /\ pc = "done"
    /\ Len(report.listed_duplicates) = 2
    /\ report.listed_duplicates # duplicates
    /\ report.listed_duplicates[1].count > report.listed_duplicates[2].count

\* the phrases of the disk whose occurrences carry at least 2 sources
DuplicatedOnDisk ==
    {phrase \in {disk[k].phrase : k \in 1..Len(disk)} :
        Cardinality(SourcesOnDisk(phrase)) >= 2}

\* C17: detection keeps every group and every pair, however many the lists
\* hold already: a call of find_exact_duplicates appends one group for each
\* phrase that stands in two files, an iteration of the scan one record for
\* each pair it emits; generate_report leaves both lists as they are and
\* cuts only its listings, to 50 groups and 100 pairs; the counts and the
\* reduction estimate of its statistics are those of the full lists.
C17_CapsOnlyRendering ==
    [][/\ (pc = "find_exact" /\ pc' = "find_near") =>
              /\ Len(duplicates') = Len(duplicates) + Cardinality(DuplicatedOnDisk)
              /\ SubSeq(duplicates', 1, Len(duplicates)) = duplicates
              /\ {duplicates'[k].phrase : k \in (Len(duplicates) + 1)..Len(duplicates')}
                     = DuplicatedOnDisk
       /\ (pc = "scan" /\ anchor' = anchor + 1) =>
              /\ Len(near_duplicates') = Len(near_duplicates)
                     + Cardinality({k \in (Len(comparisons) + 1)..Len(comparisons') :
                                       comparisons'[k].outcome = "emitted"})
              /\ SubSeq(near_duplicates', 1, Len(near_duplicates)) = near_duplicates
       /\ (pc = "report" /\ pc' = "done") =>
              LET groups    == Len(duplicates)
                  pairs     == Len(near_duplicates)
                  instances == Cardinality({<<k, e>> \in (1..groups) \X (1..Len(disk)) :
                                               disk[e].phrase = duplicates[k].phrase})
                                   - groups
                  stats     == report'.statistics
              IN  /\ duplicates' = duplicates
                  /\ near_duplicates' = near_duplicates
                  /\ Len(report'.listed_duplicates)
                         = (IF groups > MaxReportedDuplicates THEN MaxReportedDuplicates
                            ELSE groups)
                  /\ Len(report'.listed_near)
                         = (IF pairs > MaxReportedNear THEN MaxReportedNear ELSE pairs)
                  /\ stats.exact_duplicates = groups
                  /\ stats.near_duplicates = pairs
                  /\ stats.total_potential = instances + pairs
                  /\ Len(disk) > 0 =>
                        stats.reduction_pct[1] * Len(disk)
                            = (instances + pairs) * 100 * stats.reduction_pct[2]
      ]_vars

\* C17 witness: a report has been written for more than 50 groups and more
\* than 100 pairs, and lists 50 and 100 of them.
C17_Witness ==
    /\ pc = "done"
    /\ Len(duplicates) > MaxReportedDuplicates
    /\ Len(report.listed_duplicates) = MaxReportedDuplicates
    /\ Len(near_duplicates) > MaxReportedNear
    /\ Len(report.listed_near) = MaxReportedNear

\* the characters of s that are neither whitespace nor letters nor the
\* combining dot, in order
Punctuation(s) ==
    SelectSeq(s, LAMBDA c : c \notin Whitespace \cup DOMAIN LowerOf \cup Range(Lowers)
                                       \cup {"\\xe9", "\\u03b1", "\\u03c3", "\\u03c2",
                                             "\\u0131", "\\u017f", "\\u0307", "\\u210b"})

\* C18, as claimed: what normalize_phrase returns neither starts nor ends
\* with whitespace, holds no whitespace but single spaces, and no upper-case
\* letter (no character of which str.isupper() is true); it holds the
\* punctuation of the phrase, in order; normalizing it again returns it
\* unchanged.
C18_NoUpperCaseLetter ==
    LET result == normalize_call.result
    IN  /\ normalize_call.returned =>
              /\ result # <<>> =>
                    result[1] \notin Whitespace /\ result[Len(result)] \notin Whitespace
              /\ \A k \in 1..Len(result) :
                    /\ result[k] \in Whitespace => result[k] = " "
                    /\ result[k] \notin DOMAIN LowerOf \cup {"\\u210b"}
              /\ \A k \in 1..(Len(result) - 1) :
                    ~(result[k] \in Whitespace /\ result[k + 1] \in Whitespace)
              /\ Punctuation(result) = Punctuation(normalize_call.phrase)
        /\ pc = "normalize_done" => normalize_call.again = result

\* C18, amended: what normalize_phrase returns neither starts nor ends with
\* whitespace, holds no whitespace but single spaces, and no upper-case
\* letter that has a lower-case form; it holds the punctuation of the
\* phrase, in order; normalizing it again returns it unchanged.
C18_NormalizedForm ==
    LET result == normalize_call.result
    IN  /\ normalize_call.returned =>
              /\ result # <<>> =>
                    result[1] \notin Whitespace /\ result[Len(result)] \notin Whitespace
              /\ \A k \in 1..Len(result) :
                    /\ result[k] \in Whitespace => result[k] = " "
                    /\ result[k] \notin DOMAIN LowerOf
              /\ \A k \in 1..(Len(result) - 1) :
                    ~(result[k] \in Whitespace /\ result[k + 1] \in Whitespace)
              /\ Punctuation(result) = Punctuation(normalize_call.phrase)
        /\ pc = "normalize_done" => normalize_call.again = result

\* C18 witness: a phrase with whitespace at an end, a run of whitespace
\* inside, an upper-case letter that has a lower-case form and punctuation
\* has been normalized twice.
C18_Witness ==
    LET phrase == normalize_call.phrase
    IN  /\ pc = "normalize_done"
        /\ phrase # <<>>
        /\ phrase[1] \in Whitespace
        /\ \E k \in 2..(Len(phrase) - 2) :
              phrase[k] \in Whitespace /\ phrase[k + 1] \in Whitespace
        /\ \E k \in 1..Len(phrase) : phrase[k] \in DOMAIN LowerOf
        /\ Punctuation(phrase) # <<>>
        /\ normalize_call.result # phrase

\* C19: after a scan at the default threshold of a corpus that holds "the
\* axe cleaves through bone" and "the axe cleaves through flesh", the scan
\* has drawn the one against the other (they lie within the bucket radius),
\* the draw has passed the length filter and the test of the normalized
\* forms and was emitted, and near_duplicates holds a record of the two
\* with a similarity of at least 0.85.
C19_AxeScenario ==
    (ScanDone /\ {bone, flesh} \subseteq Range(all_phrases)) =>
        /\ threshold = DefaultThreshold
        /\ \E k \in 1..Len(comparisons) :
              /\ comparisons[k].phrase1 = bone
              /\ comparisons[k].phrase2 = flesh
              /\ comparisons[k].outcome = "emitted"
        /\ \E k \in 1..Len(near_duplicates) :
              /\ PairOf(near_duplicates[k]) = {bone, flesh}
              /\ 100 * near_duplicates[k].similarity[1]
                     >= DefaultThreshold * near_duplicates[k].similarity[2]

\* C19 witness: such a corpus has been scanned and the record of the two
\* phrases carries the similarity 50/57.
C19_Witness ==
    /\ ScanDone
    /\ {bone, flesh} \subseteq Range(all_phrases)
    /\ \E k \in 1..Len(near_duplicates) :
          /\ near_duplicates[k].phrase1 = bone
          /\ near_duplicates[k].phrase2 = flesh
          /\ near_duplicates[k].similarity = <<50, 57>>

\* the record joins two distinct phrases of the corpus whose normalized
\* forms differ and carries their similarity, which is at least t
ValidRecord(r, t) ==
    /\ r.phrase1 # r.phrase2
    /\ {r.phrase1, r.phrase2} \subseteq Range(all_phrases)
    /\ normalize_phrase(r.phrase1) # normalize_phrase(r.phrase2)
    /\ r.similarity = similarity_ratio(normalize_phrase(r.phrase1),
                                       normalize_phrase(r.phrase2))
    /\ 100 * r.similarity[1] >= t * r.similarity[2]

\* C20: every step leaves the records near_duplicates already holds in
\* place and unchanged and only appends to them, and every record of the
\* list is a valid near-duplicate pair: whatever the scan has accumulated
\* after an anchor is a prefix of what it ends with.
C20_PairListOnlyGrows ==
    [][/\ Len(near_duplicates') >= Len(near_duplicates)
       /\ SubSeq(near_duplicates', 1, Len(near_duplicates)) = near_duplicates
       /\ \A k \in 1..Len(near_duplicates') : ValidRecord(near_duplicates'[k], threshold')]_vars

\* C20 witness: the scan stands between two anchors, with records of two
\* anchors accumulated and an anchor still to scan.
C20_Witness ==
    /\ pc = "scan"
    /\ anchor >= 2
    /\ anchor < Len(unique_phrases)
    /\ \E m, n \in 1..Len(near_duplicates) :
          near_duplicates[m].phrase1 # near_duplicates[n].phrase1

\* the directories whose files the loaders have gone through
LoadedDirs ==
    IF pc = "load_damage" THEN {}
    ELSE IF pc = "load_location" THEN {"damage"}
    ELSE IF pc = "load_opening" THEN {"damage", "locations"}
    ELSE {Files[k].dir : k \in 1..Len(Files)}

\* the entries of the disk the loaders have gone through, in load order:
\* file by file as glob yields them, list by list
LoadedEntries ==
    Flatten(AsSeq([p \in 1..Len(SlotsIn(LoadedDirs)) |-> EntriesOf(SlotsIn(LoadedDirs)[p])]))

RECURSIVE TotalLength(_)
\* the lengths of the lists of the dictionary, added up
TotalLength(pl) ==
    IF pl = <<>> THEN 0 ELSE Len(Head(pl).val) + TotalLength(Tail(pl))

\* C22: after any sequence of loads that returned, phrase_locations holds
\* each key once, the list of a key holds one location record per loaded
\* occurrence of the literal phrase, in load order and with repeats, the
\* keys are the distinct phrases of all_phrases, and the lengths of the
\* lists add up to len(all_phrases).
C22_OccurrenceLists ==
    raised = "none" =>
        /\ \A k, m \in 1..Len(phrase_locations) :
              phrase_locations[k].key = phrase_locations[m].key => k = m
        /\ \A k \in 1..Len(phrase_locations) :
              LET occ == SelectSeq(LoadedEntries,
                                   LAMBDA e : e.phrase = phrase_locations[k].key)
              IN  phrase_locations[k].val = AsSeq([j \in 1..Len(occ) |-> Location(occ[j])])
        /\ Keys(phrase_locations) = Range(all_phrases)
        /\ TotalLength(phrase_locations) = Len(all_phrases)

\* C22 witness: the loads are over, a phrase repeated in one list of one
\* file under one outcome has two equal records in its list, and another
\* phrase is a key too.
C22_Witness ==
    /\ pc = "find_exact"
    /\ Len(phrase_locations) >= 2
    /\ \E k \in 1..Len(phrase_locations) :
          /\ Len(phrase_locations[k].val) = 2
          /\ phrase_locations[k].val[1] = phrase_locations[k].val[2]

\* C23: find_exact_duplicates and find_near_duplicates leave the loaded
\* corpus as it is: every step of either keeps all_phrases and
\* phrase_locations (its keys, their order and every occurrence list);
\* the lookups self.phrase_locations[phrase1] and [phrase2] of an emitted
\* pair add no key.
C23_CorpusUnchanged ==
    [][(pc \in {"find_exact", "find_near", "scan"}) =>
          (all_phrases' = all_phrases /\ phrase_locations' = phrase_locations)]_vars

\* C23 witness: both operations have run, a group was recorded and the scan
\* has emitted a pair and looked up the lists of its two phrases.
C23_Witness ==
    /\ ScanDone
    /\ duplicates # <<>>
    /\ \E k \in 1..Len(near_duplicates) :
          /\ near_duplicates[k].locations1 = Get(phrase_locations, near_duplicates[k].phrase1)
          /\ near_duplicates[k].locations2 = Get(phrase_locations, near_duplicates[k].phrase2)

\* C27: once the scan is over, for every two distinct unique phrases P and
\* Q whose buckets differ by at most 2, whose lengths differ by at most 0.2
\* of the longer, whose normalized forms differ and whose similarity is at
\* least the threshold, near_duplicates holds the record the anchor P
\* emits for Q; also for an anchor of bucket 0 or 1, where the lower bound
\* of the bucket range is clamped to 0.
C27_ScanComplete ==
    ScanDone =>
        \A P, Q \in Range(unique_phrases) :
            (/\ P # Q
             /\ Abs(LengthBucket(P) - LengthBucket(Q)) <= BucketRadius
             /\ 5 * Abs(Len(P) - Len(Q)) <= Max2(Len(P), Len(Q))
             /\ normalize_phrase(P) # normalize_phrase(Q)
             /\ LET similarity == similarity_ratio(normalize_phrase(P), normalize_phrase(Q))
                IN  100 * similarity[1] >= threshold * similarity[2])
            => \E k \in 1..Len(near_duplicates) :
                  near_duplicates[k].phrase1 = P /\ near_duplicates[k].phrase2 = Q

\* C27 witness: the scan is over and holds a record of an anchor of bucket
\* 1 with a phrase of bucket 0 (the range of the anchor starts at the
\* clamped bound) and a record of an anchor of bucket 0.
C27_Witness ==
    /\ ScanDone
    /\ \E k \in 1..Len(near_duplicates) :
          /\ LengthBucket(near_duplicates[k].phrase1) = 1
          /\ LengthBucket(near_duplicates[k].phrase2) = 0
    /\ \E k \in 1..Len(near_duplicates) :
          LengthBucket(near_duplicates[k].phrase1) = 0

\* the corpus files the loaded occurrences of the phrase come from
FilesLoadedFrom(phrase) ==
    {Slots[LoadedEntries[k].slot].file :
        k \in {j \in 1..Len(LoadedEntries) : LoadedEntries[j].phrase = phrase}}

\* C28: occurrences loaded from different corpus files carry different
\* 'file' values: the occurrence list of a phrase holds as many distinct
\* 'file' values as there are files the phrase was loaded from, and once
\* find_exact_duplicates has run, every phrase loaded from two or more
\* files has a group.
C28_DistinctSources ==
    raised = "none" =>
        \A k \in 1..Len(phrase_locations) :
            LET files == FilesLoadedFrom(phrase_locations[k].key)
            IN  /\ Cardinality(FileSet(phrase_locations[k].val)) = Cardinality(files)
                /\ (ExactDone /\ Cardinality(files) >= 2) =>
                       \E g \in 1..Len(duplicates) :
                           /\ duplicates[g].phrase = phrase_locations[k].key
                           /\ Len(duplicates[g].files) = Cardinality(files)

\* C29: the estimated reduction of a written report lies between 0 and
\* 100 per cent: the potential reductions (duplicate instances plus
\* near-duplicate records) do not exceed the phrase instances.
C29_ReductionWithinRange ==
    report.written =>
        /\ report.statistics.total_potential >= 0
        /\ report.statistics.total_potential <= report.statistics.phrase_instances
        /\ report.statistics.reduction_pct[1] >= 0
        /\ report.statistics.reduction_pct[1] <= 100 * report.statistics.reduction_pct[2]

\* the phrases the anchor P pairs with: a function of P, of the phrases of
\* the bucket index and of the threshold t
Partners(P, indexed, t) ==
    {Q \in indexed :
        /\ Q # P
        /\ Abs(LengthBucket(P) - LengthBucket(Q)) <= BucketRadius
        /\ 5 * Abs(Len(P) - Len(Q)) <= Max2(Len(P), Len(Q))
        /\ normalize_phrase(P) # normalize_phrase(Q)
        /\ LET similarity == similarity_ratio(normalize_phrase(P), normalize_phrase(Q))
           IN  100 * similarity[1] >= t * similarity[2]}

\* the records the anchor P contributes, whatever was scanned before it
ContributionOf(P, indexed, t) ==
    {[phrase1    |-> P,
      phrase2    |-> Q,
      similarity |-> similarity_ratio(normalize_phrase(P), normalize_phrase(Q)),
      locations1 |-> LocationsOnDisk(P),
      locations2 |-> LocationsOnDisk(Q)] : Q \in Partners(P, indexed, t)}

C24_WithinTwentyCharacters ==
    \A k \in 1..Len(comparisons) :
        comparisons[k].outcome \in {"emitted", "below"} =>
            Abs(Len(comparisons[k].phrase1) - Len(comparisons[k].phrase2)) <= 20

(***************************************************************************)
(* The corpus-fixing scripts.                                              *)
(***************************************************************************)
\* the list lines 455-466 give the file
OriginalReplacements(file) ==
    LET at == {k \in 1..Len(FileReplacementsAsDefined) :
                  FileReplacementsAsDefined[k].file = file}
    IN  IF at = {} THEN <<>> ELSE FileReplacementsAsDefined[CHOOSE k \in at : TRUE].replacements

\* C25: the extra rules of axe, dagger and unarmed are put in front of the
\* existing lists, so that main(), when fix_weapon_references.py is run as a
\* script, rewrites axe.json, dagger.json and unarmed.json with the extra
\* rules applied ahead of the original ones.
C25_ExtrasAppliedByScript ==
    [][/\ (pc = "weapon_extras") =>
              (\A k \in 1..Len(FILE_REPLACEMENTS) :
                   FILE_REPLACEMENTS'[k].replacements =
                       ExtraReplacements(FILE_REPLACEMENTS[k].file)
                           \o FILE_REPLACEMENTS[k].replacements)
       /\ (pc = "weapon_guard" /\ module_name = "__main__") =>
              (\A file \in DOMAIN json_files :
                   ExtraReplacements(file) # <<>> =>
                       json_files'[file] =
                           fix_weapon_file(json_files[file],
                                           ExtraReplacements(file)
                                               \o OriginalReplacements(file)).value)]_vars

RECURSIVE Skeleton(_)
\* a JSON value with every string leaf emptied: its nesting, its keys, the
\* lengths and the order of its lists, its other leaves
Skeleton(value) ==
    IF value.type = "str" THEN Json("str", <<>>)
    ELSE IF value.type = "list"
    THEN Json("list", AsSeq([k \in 1..Len(value.val) |-> Skeleton(value.val[k])]))
    ELSE IF value.type = "dict"
    THEN Json("dict", AsSeq([k \in 1..Len(value.val) |->
                        <<value.val[k][1], Skeleton(value.val[k][2])>>]))
    ELSE value

RECURSIVE Flattened(_)
Flattened(seqs) == IF seqs = <<>> THEN <<>> ELSE Head(seqs) \o Flattened(Tail(seqs))

RECURSIVE StringLeaves(_)
\* the string leaves of a JSON value, from left to right
StringLeaves(value) ==
    IF value.type = "str" THEN <<value.val>>
    ELSE IF value.type = "list"
    THEN Flattened(AsSeq([k \in 1..Len(value.val) |-> StringLeaves(value.val[k])]))
    ELSE IF value.type = "dict"
    THEN Flattened(AsSeq([k \in 1..Len(value.val) |-> StringLeaves(value.val[k][2])]))
    ELSE <<>>

\* after is before with transform applied to every string leaf and to
\* nothing else, and count is the number of string leaves transform changes
WalkedBy(before, after, count, transform(_)) ==
    /\ Skeleton(after) = Skeleton(before)
    /\ Len(StringLeaves(after)) = Len(StringLeaves(before))
    /\ \A k \in 1..Len(StringLeaves(before)) :
          StringLeaves(after)[k] = transform(StringLeaves(before)[k])
    /\ count = Cardinality({k \in 1..Len(StringLeaves(before)) :
                               transform(StringLeaves(before)[k]) # StringLeaves(before)[k]})

\* C26: process_value applies the string transform to every string leaf and
\* to nothing else (same nesting, same keys, same list lengths and order,
\* other leaves unchanged), and the counter changes is the number of string
\* leaves whose transformed value differs from the original; for the walk
\* of fix_weapon_file and for the walk of fix_grammar_in_file, in main()
\* and called on their own; a file that is not walked is left as it is.
C26_TreeWalk ==
    [][/\ (\/ pc = "weapon_guard" /\ pc' = "weapon_extras" /\ module_name = "__main__"
           \/ pc = "weapon_end" /\ pc' = "weapon_called") =>
              /\ Len(changes') = Len(FILE_REPLACEMENTS)
              /\ \A k \in 1..Len(FILE_REPLACEMENTS) :
                    /\ changes'[k].file = FILE_REPLACEMENTS[k].file
                    /\ json_files[FILE_REPLACEMENTS[k].file] # Missing =>
                          WalkedBy(json_files[FILE_REPLACEMENTS[k].file],
                                   json_files'[FILE_REPLACEMENTS[k].file],
                                   changes'[k].changes,
                                   LAMBDA text :
                                       apply_replacements(text,
                                                          FILE_REPLACEMENTS[k].replacements))
       /\ (pc = "weapon_end" /\ pc' = "weapon_file_fixed") =>
              /\ Len(changes') = 1
              /\ json_files[changes'[1].file] # Missing =>
                    WalkedBy(json_files[changes'[1].file], json_files'[changes'[1].file],
                             changes'[1].changes,
                             LAMBDA text : apply_replacements(text, changes'[1].replacements))
       /\ (pc = "grammar" /\ pc' \in {"grammar_done", "grammar_file_fixed"}) =>
              /\ \A k \in 1..Len(changes') :
                    json_files[changes'[k].file] # Missing =>
                        WalkedBy(json_files[changes'[k].file], json_files'[changes'[k].file],
                                 changes'[k].changes, capitalize_sentence_start)
              /\ \A k, m \in 1..Len(changes') : changes'[k].file = changes'[m].file => k = m
              /\ pc' = "grammar_done" =>
                    \A file \in DOMAIN json_files :
                        (/\ json_files[file] # Missing
                         /\ Len(file) > Len(data_dir)
                         /\ SubSeq(file, 1, Len(data_dir)) = data_dir
                         /\ Len(file[Len(file)]) >= 5
                         /\ SubSeq(file[Len(file)], Len(file[Len(file)]) - 4,
                                   Len(file[Len(file)])) = <<".", "j", "s", "o", "n">>)
                            => \E k \in 1..Len(changes') : changes'[k].file = file
       /\ (pc \in {"weapon_guard", "weapon_end", "grammar"}) =>
              \A file \in DOMAIN json_files :
                  (json_files[file] = Missing
                       \/ \A k \in 1..Len(changes') : changes'[k].file # file)
                      => json_files'[file] = json_files[file]]_vars

\* main() has walked a file that is an object holding a list and a number,
\* and changed some of its string leaves but not all of them
C26_Witness ==
    /\ pc \in {"weapon_extras", "weapon_called"}
    /\ \E k \in 1..Len(changes) :
          /\ json_files[changes[k].file].type = "dict"
          /\ \E m \in 1..Len(json_files[changes[k].file].val) :
                json_files[changes[k].file].val[m][2].type = "list"
          /\ \E m \in 1..Len(json_files[changes[k].file].val) :
                json_files[changes[k].file].val[m][2].type = "number"
          /\ changes[k].changes > 0
          /\ changes[k].changes < Len(StringLeaves(json_files[changes[k].file]))

\* C30: the key fix loses no entry: the rewritten mapping has as many keys
\* as the original, every value of the original is under its original key
\* or under the mapped key, also when the original holds a key equal to a
\* mapped target name, and the number of reported changes is the number of
\* original keys that are in KEY_MAPPINGS.
C30_NoEntryLost ==
    [][(pc = "anatomy") =>
           (LET before == json_files[file_path].val
                after  == json_files'[file_path].val
            IN  /\ Len(after) = Len(before)
                /\ \A k \in 1..Len(before) :
                      \E m \in 1..Len(after) :
                         /\ after[m][2] = before[k][2]
                         /\ \/ after[m][1] = before[k][1]
                            \/ /\ before[k][1] \in DOMAIN KEY_MAPPINGS
                               /\ after[m][1] = KEY_MAPPINGS[before[k][1]]
                /\ Len(changes_made') =
                       Cardinality({k \in 1..Len(before) :
                                       before[k][1] \in DOMAIN KEY_MAPPINGS}))]_vars

=============================================================================
